---- MODULE Spec2Model ----
(***************************************************************************)
(* State-machine model of the OpenGL backend of FidelityFX FSR2            *)
(* (src/src/ffx-fsr2-api/gl/ffx_fsr2_gl.cpp and                            *)
(* src/src/ffx-fsr2-api/gl/shaders/ffx_fsr2_shaders_gl.cpp).               *)
(*                                                                         *)
(* The backend context lives in a caller-supplied scratch buffer that is   *)
(* only cast to BackendContext_GL, never constructed: until a callback     *)
(* assigns a field, the field holds whatever the caller's memory held.     *)
(* FFX_ASSERT does not alter control flow in the source: a call whose      *)
(* assertion is false records assertFailed and runs on.  An access outside *)
(* an array of the context is undefined behaviour: it sets ub, leaves the  *)
(* scalar fields of the context with arbitrary values and ends the run.    *)
(***************************************************************************)
EXTENDS Integers, Naturals, Sequences, FiniteSets, TLC

VARIABLES
    call,                 \* the last API call: its name, arguments and result
    iface,                \* the caller's FfxFsr2Interface structure
    phase,                \* lifecycle of the backend context
    assertFailed,         \* some FFX_ASSERT of a call made so far was false
    ub,                   \* some call accessed an array of the context out of bounds
    glGetProcAddress,     \* context->glFunctionTable.glGetProcAddress
    gpuJobCount,          \* context->gpuJobCount
    gpuJobs,              \* context->gpuJobs[FSR2_MAX_GPU_JOBS]
    nextStaticResource,   \* context->nextStaticResource
    nextDynamicResource,  \* context->nextDynamicResource
    stagingResourceCount, \* context->stagingResourceCount
    resources,            \* context->resources[FSR2_MAX_RESOURCE_COUNT]
    pointSampler,         \* context->pointSampler.id
    linearSampler,        \* context->linearSampler.id
    uboRingBuffer,        \* context->uboRingBuffer[FSR2_UBO_RING_BUFFER_SIZE]
    uboRingBufferIndex,   \* context->uboRingBufferIndex
    glNextName,           \* the next object name the GL hands out
    glLive,               \* the GL objects created and not deleted
    staticIdx,            \* history: indices CreateResourceGL returned
    dynamicIdx,           \* history: indices RegisterResourceGL returned since
                          \* the last UnregisterResourcesGL
    registerCount,        \* history: non-null RegisterResourceGL calls since the
                          \* last UnregisterResourcesGL
    callerJob,            \* the caller's FfxGpuJobDescription
    accepted,             \* history: the descriptions ScheduleGpuJobGL was passed
                          \* since the last ExecuteGpuJobsGL
    executed,             \* the jobs the last ExecuteGpuJobsGL handed to an
                          \* execute function, in order
    glCalls,              \* the GL calls of the last ExecuteGpuJobsGL, in order
    acquireCount,         \* history: accquireDynamicUBO calls made
    scheduledTotal        \* history: ScheduleGpuJobGL calls made

lifeVars == <<phase, assertFailed, ub>>
poolVars == <<nextStaticResource, nextDynamicResource, stagingResourceCount,
              resources>>
poolHistory == <<staticIdx, dynamicIdx, registerCount>>
jobVars == <<gpuJobCount, gpuJobs>>
ringVars == <<pointSampler, linearSampler, uboRingBuffer, uboRingBufferIndex>>
glVars == <<glNextName, glLive>>
jobHistory == <<callerJob, accepted, executed, glCalls, acquireCount, scheduledTotal>>

(***************************************************************************)
(* Every field of BackendContext_GL but the loader.                        *)
(***************************************************************************)
counterVars == <<poolVars, jobVars, ringVars>>
vars == <<call, iface, glGetProcAddress, lifeVars, counterVars, glVars,
          poolHistory, jobHistory>>

NULL == "NULL"
FFX_OK == "FFX_OK"
FFX_ERROR_INVALID_POINTER == "FFX_ERROR_INVALID_POINTER"
FFX_ERROR_INSUFFICIENT_MEMORY == "FFX_ERROR_INSUFFICIENT_MEMORY"
FFX_ERROR_BACKEND_API_ERROR == "FFX_ERROR_BACKEND_API_ERROR"

(***************************************************************************)
(* A uint32_t is held as the 32-bit two's-complement integer with the same *)
(* bits (0xFFFFFFFF is -1), so the conversion to int32_t is the identity   *)
(* and ++/-- are +1/-1 away from the 2^31 boundary, which no run nears.    *)
(* U32Less is the unsigned comparison of two such values.                  *)
(***************************************************************************)
U32Less(a, b) == IF (a < 0) = (b < 0) THEN a < b ELSE b < 0

(***************************************************************************)
(* Values an unassigned uint32_t field of the scratch buffer may hold.     *)
(***************************************************************************)
GarbageU32 == {0, 7, -1}

FSR2_MAX_QUEUED_FRAMES == 4
FSR2_MAX_RESOURCE_COUNT == 64
FSR2_MAX_GPU_JOBS == 32
FSR2_MAX_UNIFORM_BUFFERS == 4

(***************************************************************************)
(* FFX_FSR2_PASS_COUNT of ffx_fsr2_interface.h: the passes are numbered    *)
(* from 0 in the order fsr2GetPermutationBlobByIndexGL lists them.         *)
(***************************************************************************)
FFX_FSR2_PASS_COUNT == 9
FSR2_MAX_BUFFERED_DESCRIPTORS == FFX_FSR2_PASS_COUNT * FSR2_MAX_QUEUED_FRAMES
FSR2_UBO_RING_BUFFER_SIZE == FSR2_MAX_BUFFERED_DESCRIPTORS * FSR2_MAX_UNIFORM_BUFFERS

(***************************************************************************)
(* FFX_FSR2_RESOURCE_IDENTIFIER_NULL of ffx_fsr2_resources.h.              *)
(***************************************************************************)
FFX_FSR2_RESOURCE_IDENTIFIER_NULL == 0

ResourceIndices == 0 .. (FSR2_MAX_RESOURCE_COUNT - 1)
JobIndices == 0 .. (FSR2_MAX_GPU_JOBS - 1)
RingIndices == 0 .. (FSR2_UBO_RING_BUFFER_SIZE - 1)

(***************************************************************************)
(* Array elements of the scratch buffer no callback has assigned yet.  A   *)
(* GL name or count of -1 and the text "uninit" stand for unknown memory.  *)
(***************************************************************************)
UninitResource ==
    [type |-> "uninit", format |-> "uninit", width |-> -1, height |-> -1,
     depth |-> -1, mipCount |-> -1, state |-> {"uninit"}, buffer |-> -1,
     textureAllMipsView |-> -1, textureSingleMipViews |-> <<>>,
     textureAspect |-> "uninit"]
UninitJob == [jobType |-> "uninit"]
UninitUbo == [bufferResource |-> -1, pData |-> -1]

ArraysUninit ==
    /\ resources = [i \in ResourceIndices |-> UninitResource]
    /\ gpuJobs = [i \in JobIndices |-> UninitJob]
    /\ uboRingBuffer = [i \in RingIndices |-> UninitUbo]
    /\ pointSampler = -1
    /\ linearSampler = -1

NoFault == assertFailed = FALSE /\ ub = FALSE
GLFresh == glNextName = 1 /\ glLive = {}
PoolHistoryEmpty == staticIdx = {} /\ dynamicIdx = {} /\ registerCount = 0
NoJob == [jobType |-> "none"]
JobHistoryEmpty ==
    /\ callerJob = NoJob
    /\ accepted = <<>>
    /\ executed = <<>>
    /\ glCalls = <<>>
    /\ acquireCount = 0
    /\ scheduledTotal = 0

(***************************************************************************)
(* getGLFormatFromSurfaceFormat: the switch from FfxSurfaceFormat to the   *)
(* GL internal format; the default case asserts and returns 0.             *)
(***************************************************************************)
getGLFormatFromSurfaceFormat(fmt) ==
    CASE fmt = "FFX_SURFACE_FORMAT_R32G32B32A32_TYPELESS" -> "GL_RGBA32F"
      [] fmt = "FFX_SURFACE_FORMAT_R32G32B32A32_FLOAT" -> "GL_RGBA32F"
      [] fmt = "FFX_SURFACE_FORMAT_R16G16B16A16_FLOAT" -> "GL_RGBA16F"
      [] fmt = "FFX_SURFACE_FORMAT_R16G16B16A16_UNORM" -> "GL_RGBA16"
      [] fmt = "FFX_SURFACE_FORMAT_R32G32_FLOAT" -> "GL_RG32F"
      [] fmt = "FFX_SURFACE_FORMAT_R32_UINT" -> "GL_R32UI"
      [] fmt = "FFX_SURFACE_FORMAT_R8G8B8A8_TYPELESS" -> "GL_RGBA8"
      [] fmt = "FFX_SURFACE_FORMAT_R8G8B8A8_UNORM" -> "GL_RGBA8"
      [] fmt = "FFX_SURFACE_FORMAT_R11G11B10_FLOAT" -> "GL_R11F_G11F_B10F"
      [] fmt = "FFX_SURFACE_FORMAT_R16G16_FLOAT" -> "GL_RG16F"
      [] fmt = "FFX_SURFACE_FORMAT_R16G16_UINT" -> "GL_RG16UI"
      [] fmt = "FFX_SURFACE_FORMAT_R16_FLOAT" -> "GL_R16F"
      [] fmt = "FFX_SURFACE_FORMAT_R16_UINT" -> "GL_R16UI"
      [] fmt = "FFX_SURFACE_FORMAT_R16_UNORM" -> "GL_R16"
      [] fmt = "FFX_SURFACE_FORMAT_R16_SNORM" -> "GL_R16_SNORM"
      [] fmt = "FFX_SURFACE_FORMAT_R8_UNORM" -> "GL_R8"
      [] fmt = "FFX_SURFACE_FORMAT_R8G8_UNORM" -> "GL_RG8"
      [] fmt = "FFX_SURFACE_FORMAT_R32_FLOAT" -> "GL_R32F"
      [] fmt = "FFX_SURFACE_FORMAT_R8_UINT" -> "GL_R8UI"
      [] OTHER -> "0"

(***************************************************************************)
(* Whether getGLFormatFromSurfaceFormat has a case for fmt (the default    *)
(* case is FFX_ASSERT_FAIL).                                               *)
(***************************************************************************)
getGLFormatFromSurfaceFormat_accepts(fmt) ==
    fmt \in {"FFX_SURFACE_FORMAT_R32G32B32A32_TYPELESS",
             "FFX_SURFACE_FORMAT_R32G32B32A32_FLOAT",
             "FFX_SURFACE_FORMAT_R16G16B16A16_FLOAT",
             "FFX_SURFACE_FORMAT_R16G16B16A16_UNORM",
             "FFX_SURFACE_FORMAT_R32G32_FLOAT",
             "FFX_SURFACE_FORMAT_R32_UINT",
             "FFX_SURFACE_FORMAT_R8G8B8A8_TYPELESS",
             "FFX_SURFACE_FORMAT_R8G8B8A8_UNORM",
             "FFX_SURFACE_FORMAT_R11G11B10_FLOAT",
             "FFX_SURFACE_FORMAT_R16G16_FLOAT",
             "FFX_SURFACE_FORMAT_R16G16_UINT",
             "FFX_SURFACE_FORMAT_R16_FLOAT",
             "FFX_SURFACE_FORMAT_R16_UINT",
             "FFX_SURFACE_FORMAT_R16_UNORM",
             "FFX_SURFACE_FORMAT_R16_SNORM",
             "FFX_SURFACE_FORMAT_R8_UNORM",
             "FFX_SURFACE_FORMAT_R8G8_UNORM",
             "FFX_SURFACE_FORMAT_R32_FLOAT",
             "FFX_SURFACE_FORMAT_R8_UINT"}

(***************************************************************************)
(* ffxGetSurfaceFormatGL: the switch from the GL internal format back to   *)
(* FfxSurfaceFormat; the default case returns FFX_SURFACE_FORMAT_UNKNOWN.  *)
(***************************************************************************)
ffxGetSurfaceFormatGL(fmt) ==
    CASE fmt = "GL_RGBA32F" -> "FFX_SURFACE_FORMAT_R32G32B32A32_FLOAT"
      [] fmt = "GL_RGBA16F" -> "FFX_SURFACE_FORMAT_R16G16B16A16_FLOAT"
      [] fmt = "GL_RGBA16" -> "FFX_SURFACE_FORMAT_R16G16B16A16_UNORM"
      [] fmt = "GL_RG32F" -> "FFX_SURFACE_FORMAT_R32G32_FLOAT"
      [] fmt = "GL_R32UI" -> "FFX_SURFACE_FORMAT_R32_UINT"
      [] fmt = "GL_RGBA8" -> "FFX_SURFACE_FORMAT_R8G8B8A8_UNORM"
      [] fmt = "GL_R11F_G11F_B10F" -> "FFX_SURFACE_FORMAT_R11G11B10_FLOAT"
      [] fmt = "GL_RG16F" -> "FFX_SURFACE_FORMAT_R16G16_FLOAT"
      [] fmt = "GL_RG16UI" -> "FFX_SURFACE_FORMAT_R16G16_UINT"
      [] fmt = "GL_R16F" -> "FFX_SURFACE_FORMAT_R16_FLOAT"
      [] fmt = "GL_R16UI" -> "FFX_SURFACE_FORMAT_R16_UINT"
      [] fmt = "GL_R16" -> "FFX_SURFACE_FORMAT_R16_UNORM"
      [] fmt = "GL_R16_SNORM" -> "FFX_SURFACE_FORMAT_R16_SNORM"
      [] fmt = "GL_R8" -> "FFX_SURFACE_FORMAT_R8_UNORM"
      [] fmt = "GL_R32F" -> "FFX_SURFACE_FORMAT_R32_FLOAT"
      [] fmt = "GL_R8UI" -> "FFX_SURFACE_FORMAT_R8_UINT"
      [] OTHER -> "FFX_SURFACE_FORMAT_UNKNOWN"

(***************************************************************************)
(* ffxGetTextureResourceGL taking only the pure depth formats for depth.   *)
(***************************************************************************)
ffxGetTextureResourceGL_stencilNotDepth(imageGL, width, height, imgFormat, state) ==
    [resource |-> imageGL,
     state |-> state,
     flags |-> "FFX_RESOURCE_FLAGS_NONE",
     type |-> "FFX_RESOURCE_TYPE_TEXTURE2D",
     width |-> width,
     height |-> height,
     depth |-> 1,
     mipCount |-> 1,
     format |-> ffxGetSurfaceFormatGL(imgFormat),
     isDepth |-> imgFormat \in {"GL_DEPTH_COMPONENT16", "GL_DEPTH_COMPONENT32F"}]

(***************************************************************************)
(* ffxGetTextureResourceGL: the FfxResource that wraps a GL texture.       *)
(***************************************************************************)
ffxGetTextureResourceGL(imageGL, width, height, imgFormat, state) ==
    [resource |-> imageGL,
     state |-> state,
     flags |-> "FFX_RESOURCE_FLAGS_NONE",
     type |-> "FFX_RESOURCE_TYPE_TEXTURE2D",
     width |-> width,
     height |-> height,
     depth |-> 1,
     mipCount |-> 1,
     format |-> ffxGetSurfaceFormatGL(imgFormat),
     isDepth |-> imgFormat \in {"GL_DEPTH_COMPONENT16", "GL_DEPTH_COMPONENT32F",
                                "GL_DEPTH24_STENCIL8", "GL_DEPTH32F_STENCIL8"}]

(***************************************************************************)
(* ffxGetBufferResourceGL: the FfxResource that wraps a GL buffer.         *)
(***************************************************************************)
ffxGetBufferResourceGL(bufferGL, size, state) ==
    [resource |-> bufferGL,
     state |-> state,
     flags |-> "FFX_RESOURCE_FLAGS_NONE",
     type |-> "FFX_RESOURCE_TYPE_BUFFER",
     width |-> size,
     height |-> 1,
     depth |-> 1,
     mipCount |-> 1,
     format |-> "FFX_SURFACE_FORMAT_UNKNOWN",
     isDepth |-> FALSE]

(***************************************************************************)
(* sizeof(BackendContext_GL), in abstract units.                           *)
(***************************************************************************)
ffxFsr2GetScratchMemorySizeGL == 4

(***************************************************************************)
(* The twelve callback slots of FfxFsr2Interface and the backend function  *)
(* ffxFsr2GetInterfaceGL stores in each.                                   *)
(***************************************************************************)
InterfaceSlots ==
    {"fpGetDeviceCapabilities", "fpCreateBackendContext", "fpDestroyBackendContext",
     "fpCreateResource", "fpRegisterResource", "fpUnregisterResources",
     "fpGetResourceDescription", "fpDestroyResource", "fpCreatePipeline",
     "fpDestroyPipeline", "fpScheduleGpuJob", "fpExecuteGpuJobs"}

GLCallbacks ==
    [s \in InterfaceSlots |->
        CASE s = "fpGetDeviceCapabilities"  -> "GetDeviceCapabilitiesGL"
          [] s = "fpCreateBackendContext"   -> "CreateBackendContextGL"
          [] s = "fpDestroyBackendContext"  -> "DestroyBackendContextGL"
          [] s = "fpCreateResource"         -> "CreateResourceGL"
          [] s = "fpRegisterResource"       -> "RegisterResourceGL"
          [] s = "fpUnregisterResources"    -> "UnregisterResourcesGL"
          [] s = "fpGetResourceDescription" -> "GetResourceDescriptorGL"
          [] s = "fpDestroyResource"        -> "DestroyResourceGL"
          [] s = "fpCreatePipeline"         -> "CreatePipelineGL"
          [] s = "fpDestroyPipeline"        -> "DestroyPipelineGL"
          [] s = "fpScheduleGpuJob"         -> "ScheduleGpuJobGL"
          [] s = "fpExecuteGpuJobs"         -> "ExecuteGpuJobsGL"]

(***************************************************************************)
(* The caller's interface structure before ffxFsr2GetInterfaceGL fills it. *)
(***************************************************************************)
UnsetInterface ==
    [fp |-> [s \in InterfaceSlots |-> "unset"],
     scratchBuffer |-> "unset",
     scratchBufferSize |-> 0]

(***************************************************************************)
(* Arguments the caller may pass to ffxFsr2GetInterfaceGL.                 *)
(***************************************************************************)
OutInterfaceArgs == {NULL, "iface"}
ScratchBufferArgs == {NULL, "scratch"}
ScratchSizeArgs ==
    {0, ffxFsr2GetScratchMemorySizeGL - 1, ffxFsr2GetScratchMemorySizeGL,
     ffxFsr2GetScratchMemorySizeGL + 1}
GetProcAddressArgs == {"loaderA", "loaderB"}

(***************************************************************************)
(* ffxFsr2GetInterfaceGL: three FFX_RETURN_ON_ERROR checks, then the       *)
(* twelve slots, the scratch buffer and its size, then the loader.         *)
(***************************************************************************)
ffxFsr2GetInterfaceGL_writesBeforeSizeCheck(outInterface, scratchBuffer, scratchBufferSize, getProcAddress) ==
    /\ call' = [op |-> "ffxFsr2GetInterfaceGL", outInterface |-> outInterface,
                scratchBuffer |-> scratchBuffer, scratchBufferSize |-> scratchBufferSize,
                getProcAddress |-> getProcAddress,
                ret |-> IF outInterface = NULL \/ scratchBuffer = NULL
                        THEN FFX_ERROR_INVALID_POINTER
                        ELSE IF scratchBufferSize < ffxFsr2GetScratchMemorySizeGL
                             THEN FFX_ERROR_INSUFFICIENT_MEMORY
                             ELSE FFX_OK]
    /\ IF outInterface # NULL /\ scratchBuffer # NULL
       THEN /\ iface' = [fp |-> GLCallbacks, scratchBuffer |-> scratchBuffer,
                         scratchBufferSize |-> scratchBufferSize]
            /\ glGetProcAddress' = getProcAddress
       ELSE UNCHANGED <<iface, glGetProcAddress>>
    /\ UNCHANGED counterVars

ffxFsr2GetInterfaceGL_resetsAllocators(outInterface, scratchBuffer, scratchBufferSize, getProcAddress) ==
    /\ call' = [op |-> "ffxFsr2GetInterfaceGL", outInterface |-> outInterface,
                scratchBuffer |-> scratchBuffer, scratchBufferSize |-> scratchBufferSize,
                getProcAddress |-> getProcAddress,
                ret |-> IF outInterface = NULL \/ scratchBuffer = NULL
                        THEN FFX_ERROR_INVALID_POINTER
                        ELSE IF scratchBufferSize < ffxFsr2GetScratchMemorySizeGL
                             THEN FFX_ERROR_INSUFFICIENT_MEMORY
                             ELSE FFX_OK]
    /\ IF outInterface # NULL /\ scratchBuffer # NULL
          /\ scratchBufferSize >= ffxFsr2GetScratchMemorySizeGL
       THEN /\ iface' = [fp |-> GLCallbacks, scratchBuffer |-> scratchBuffer,
                         scratchBufferSize |-> scratchBufferSize]
            /\ glGetProcAddress' = getProcAddress
            /\ nextStaticResource' = 0
            /\ nextDynamicResource' = 63
            /\ UNCHANGED <<stagingResourceCount, resources, jobVars, ringVars>>
       ELSE UNCHANGED <<iface, glGetProcAddress, counterVars>>

ffxFsr2GetInterfaceGL(outInterface, scratchBuffer, scratchBufferSize, getProcAddress) ==
    IF outInterface = NULL
    THEN /\ call' = [op |-> "ffxFsr2GetInterfaceGL", outInterface |-> outInterface,
                     scratchBuffer |-> scratchBuffer,
                     scratchBufferSize |-> scratchBufferSize,
                     getProcAddress |-> getProcAddress,
                     ret |-> FFX_ERROR_INVALID_POINTER]
         /\ UNCHANGED <<iface, glGetProcAddress, counterVars>>
    ELSE IF scratchBuffer = NULL
    THEN /\ call' = [op |-> "ffxFsr2GetInterfaceGL", outInterface |-> outInterface,
                     scratchBuffer |-> scratchBuffer,
                     scratchBufferSize |-> scratchBufferSize,
                     getProcAddress |-> getProcAddress,
                     ret |-> FFX_ERROR_INVALID_POINTER]
         /\ UNCHANGED <<iface, glGetProcAddress, counterVars>>
    ELSE IF ~(scratchBufferSize >= ffxFsr2GetScratchMemorySizeGL)
    THEN /\ call' = [op |-> "ffxFsr2GetInterfaceGL", outInterface |-> outInterface,
                     scratchBuffer |-> scratchBuffer,
                     scratchBufferSize |-> scratchBufferSize,
                     getProcAddress |-> getProcAddress,
                     ret |-> FFX_ERROR_INSUFFICIENT_MEMORY]
         /\ UNCHANGED <<iface, glGetProcAddress, counterVars>>
    ELSE /\ iface' = [fp |-> GLCallbacks,
                      scratchBuffer |-> scratchBuffer,
                      scratchBufferSize |-> scratchBufferSize]
         /\ glGetProcAddress' = getProcAddress
         /\ call' = [op |-> "ffxFsr2GetInterfaceGL", outInterface |-> outInterface,
                     scratchBuffer |-> scratchBuffer,
                     scratchBufferSize |-> scratchBufferSize,
                     getProcAddress |-> getProcAddress,
                     ret |-> FFX_OK]
         /\ UNCHANGED counterVars

NoCall == [op |-> "none", ret |-> FFX_OK]

(***************************************************************************)
(* Specification of interface creation: the scratch buffer holds arbitrary *)
(* memory and the caller calls ffxFsr2GetInterfaceGL with any arguments.   *)
(***************************************************************************)
InitIface ==
    /\ call = NoCall
    /\ iface = UnsetInterface
    /\ glGetProcAddress = "uninit"
    /\ gpuJobCount \in GarbageU32
    /\ nextStaticResource \in GarbageU32
    /\ nextDynamicResource \in GarbageU32
    /\ uboRingBufferIndex \in GarbageU32
    /\ stagingResourceCount = 0
    /\ ArraysUninit
    /\ phase = "scratch"
    /\ NoFault
    /\ GLFresh
    /\ PoolHistoryEmpty
    /\ JobHistoryEmpty

GetInterface ==
    /\ \E o \in OutInterfaceArgs, s \in ScratchBufferArgs,
          n \in ScratchSizeArgs, g \in GetProcAddressArgs :
           ffxFsr2GetInterfaceGL(o, s, n, g)
    /\ UNCHANGED <<lifeVars, glVars, poolHistory, jobHistory>>

NextIface == GetInterface

SpecIface == InitIface /\ [][NextIface]_vars

(***************************************************************************)
(* C1: ffxFsr2GetInterfaceGL returns FFX_ERROR_INVALID_POINTER when        *)
(* outInterface or scratchBuffer is NULL and, both being non-NULL,         *)
(* FFX_ERROR_INSUFFICIENT_MEMORY when scratchBufferSize is below           *)
(* ffxFsr2GetScratchMemorySizeGL(); a call that returns an error has       *)
(* written neither the interface structure nor any field of the scratch    *)
(* buffer.                                                                 *)
(***************************************************************************)
C1_ErrorReturnsWriteNothing ==
    [][call'.op = "ffxFsr2GetInterfaceGL" =>
        /\ (call'.outInterface = NULL \/ call'.scratchBuffer = NULL)
               => call'.ret = FFX_ERROR_INVALID_POINTER
        /\ (/\ call'.outInterface # NULL
            /\ call'.scratchBuffer # NULL
            /\ call'.scratchBufferSize < ffxFsr2GetScratchMemorySizeGL)
               => call'.ret = FFX_ERROR_INSUFFICIENT_MEMORY
        /\ call'.ret # FFX_OK
               => UNCHANGED <<iface, glGetProcAddress, counterVars>>]_vars

C1_Witness ==
    /\ call.op = "ffxFsr2GetInterfaceGL"
    /\ call.outInterface # NULL
    /\ call.scratchBuffer # NULL
    /\ call.scratchBufferSize = ffxFsr2GetScratchMemorySizeGL - 1
    /\ call.ret = FFX_ERROR_INSUFFICIENT_MEMORY
    /\ iface = UnsetInterface

(***************************************************************************)
(* C2: with outInterface and scratchBuffer non-NULL and scratchBufferSize  *)
(* at least ffxFsr2GetScratchMemorySizeGL(), ffxFsr2GetInterfaceGL returns *)
(* FFX_OK, sets each of the twelve callback slots to its GL backend        *)
(* function, records scratchBuffer and scratchBufferSize in the interface  *)
(* and getProcAddress in the backend context, and writes no other field of *)
(* the backend context: the allocators, the job count and the ring cursor  *)
(* keep the values the scratch memory held.                                *)
(***************************************************************************)
C2_SuccessFillsInterfaceOnly ==
    [][(/\ call'.op = "ffxFsr2GetInterfaceGL"
        /\ call'.outInterface # NULL
        /\ call'.scratchBuffer # NULL
        /\ call'.scratchBufferSize >= ffxFsr2GetScratchMemorySizeGL) =>
        /\ call'.ret = FFX_OK
        /\ DOMAIN iface'.fp = InterfaceSlots
        /\ Cardinality(InterfaceSlots) = 12
        /\ iface'.fp["fpGetDeviceCapabilities"] = "GetDeviceCapabilitiesGL"
        /\ iface'.fp["fpCreateBackendContext"] = "CreateBackendContextGL"
        /\ iface'.fp["fpDestroyBackendContext"] = "DestroyBackendContextGL"
        /\ iface'.fp["fpCreateResource"] = "CreateResourceGL"
        /\ iface'.fp["fpRegisterResource"] = "RegisterResourceGL"
        /\ iface'.fp["fpUnregisterResources"] = "UnregisterResourcesGL"
        /\ iface'.fp["fpGetResourceDescription"] = "GetResourceDescriptorGL"
        /\ iface'.fp["fpDestroyResource"] = "DestroyResourceGL"
        /\ iface'.fp["fpCreatePipeline"] = "CreatePipelineGL"
        /\ iface'.fp["fpDestroyPipeline"] = "DestroyPipelineGL"
        /\ iface'.fp["fpScheduleGpuJob"] = "ScheduleGpuJobGL"
        /\ iface'.fp["fpExecuteGpuJobs"] = "ExecuteGpuJobsGL"
        /\ iface'.scratchBuffer = call'.scratchBuffer
        /\ iface'.scratchBufferSize = call'.scratchBufferSize
        /\ glGetProcAddress' = call'.getProcAddress
        /\ UNCHANGED counterVars]_vars

C2_Witness ==
    /\ call.op = "ffxFsr2GetInterfaceGL"
    /\ call.ret = FFX_OK
    /\ iface.fp["fpExecuteGpuJobs"] = "ExecuteGpuJobsGL"
    /\ iface.scratchBufferSize = ffxFsr2GetScratchMemorySizeGL + 1
    /\ glGetProcAddress = "loaderB"
    /\ nextStaticResource = 7
    /\ nextDynamicResource = -1
    /\ gpuJobCount = 7
    /\ uboRingBufferIndex = -1


(***************************************************************************)
(* Bounds of the model.  MaxStatic caps the CreateResourceGL calls of a    *)
(* run and MaxQueued the ScheduleGpuJobGL calls of the resource-pool       *)
(* specification.                                                          *)
(***************************************************************************)
MaxStatic == 1
MaxQueued == 1

(***************************************************************************)
(* What an out-of-bounds write into the context leaves behind: the fields  *)
(* that lie next to the arrays hold arbitrary values and the run ends.     *)
(***************************************************************************)
UndefinedBehaviour ==
    /\ ub' = TRUE
    /\ nextStaticResource' \in GarbageU32
    /\ nextDynamicResource' \in GarbageU32
    /\ stagingResourceCount' \in GarbageU32

(***************************************************************************)
(* The outcomes of glMapNamedBufferRange in CreateBackendContextGL: the    *)
(* ring index at which it returns NULL, FSR2_UBO_RING_BUFFER_SIZE if none. *)
(***************************************************************************)
MapFailurePoints == {0, 5, FSR2_UBO_RING_BUFFER_SIZE - 1, FSR2_UBO_RING_BUFFER_SIZE}

(***************************************************************************)
(* CreateBackendContextGL going on after a buffer that cannot be mapped.   *)
(***************************************************************************)
CreateBackendContextGL_ignoresMapFailure(mapFailsAt) ==
    LET firstBuffer == glNextName + 2
    IN  /\ nextStaticResource' = 0
        /\ nextDynamicResource' = FSR2_MAX_RESOURCE_COUNT - 1
        /\ pointSampler' = glNextName
        /\ linearSampler' = glNextName + 1
        /\ uboRingBuffer' =
              [i \in RingIndices |->
                  [bufferResource |-> firstBuffer + i,
                   pData |-> IF i = mapFailsAt THEN 0 ELSE firstBuffer + i]]
        /\ glNextName' = firstBuffer + FSR2_UBO_RING_BUFFER_SIZE
        /\ glLive' = glLive \cup (glNextName .. (firstBuffer + FSR2_UBO_RING_BUFFER_SIZE - 1))
        /\ gpuJobCount' = 0
        /\ stagingResourceCount' = 0
        /\ uboRingBufferIndex' = 0
        /\ phase' = "created"
        /\ call' = [op |-> "CreateBackendContextGL", ret |-> FFX_OK]
        /\ staticIdx' = {}
        /\ dynamicIdx' = {}
        /\ registerCount' = 0
        /\ accepted' = <<>>
        /\ acquireCount' = 0
        /\ UNCHANGED <<iface, glGetProcAddress, assertFailed, ub, resources, gpuJobs,
                       callerJob, executed, glCalls, scheduledTotal>>

(***************************************************************************)
(* CreateBackendContextGL: resets the two allocators, creates the two      *)
(* samplers and the ring of persistently mapped uniform buffers (returning *)
(* at the first buffer that cannot be mapped), then zeroes the job count,  *)
(* the staging count and the ring cursor.                                  *)
(***************************************************************************)
CreateBackendContextGL(mapFailsAt) ==
    LET firstBuffer == glNextName + 2
        made == IF mapFailsAt < FSR2_UBO_RING_BUFFER_SIZE
                THEN mapFailsAt + 1 ELSE FSR2_UBO_RING_BUFFER_SIZE
        failed == mapFailsAt < FSR2_UBO_RING_BUFFER_SIZE
    IN  /\ nextStaticResource' = 0
        /\ nextDynamicResource' = FSR2_MAX_RESOURCE_COUNT - 1
        /\ pointSampler' = glNextName
        /\ linearSampler' = glNextName + 1
        /\ uboRingBuffer' =
              [i \in RingIndices |->
                  IF i < made
                  THEN [bufferResource |-> firstBuffer + i,
                        pData |-> IF i = mapFailsAt THEN 0 ELSE firstBuffer + i]
                  ELSE uboRingBuffer[i]]
        /\ glNextName' = firstBuffer + made
        /\ glLive' = glLive \cup (glNextName .. (firstBuffer + made - 1))
        /\ IF failed
           THEN /\ UNCHANGED <<gpuJobCount, stagingResourceCount, uboRingBufferIndex>>
                /\ phase' = "failed"
                /\ call' = [op |-> "CreateBackendContextGL",
                            ret |-> FFX_ERROR_BACKEND_API_ERROR]
           ELSE /\ gpuJobCount' = 0
                /\ stagingResourceCount' = 0
                /\ uboRingBufferIndex' = 0
                /\ phase' = "created"
                /\ call' = [op |-> "CreateBackendContextGL", ret |-> FFX_OK]
        /\ staticIdx' = {}
        /\ dynamicIdx' = {}
        /\ registerCount' = 0
        /\ accepted' = <<>>
        /\ acquireCount' = 0
        /\ UNCHANGED <<iface, glGetProcAddress, assertFailed, ub, resources, gpuJobs,
                       callerJob, executed, glCalls, scheduledTotal>>

(***************************************************************************)
(* The dynamic bump allocator: internalIndex = nextDynamicResource--.      *)
(***************************************************************************)
DynamicAllocate_preDecrement(next) == [index |-> next - 1, next |-> next - 1]

DynamicAllocate(next) == [index |-> next, next |-> next - 1]

(***************************************************************************)
(* The static bump allocator: internalIndex = nextStaticResource++.        *)
(***************************************************************************)
StaticAllocate(next) == [index |-> next, next |-> next + 1]

(***************************************************************************)
(* The slot RegisterResourceGL leaves for a non-null resource: the         *)
(* description and the state are copied; a buffer sets only the buffer     *)
(* name, a texture the all-mips view, single-mip view 0 and the aspect.    *)
(***************************************************************************)
RegisteredResource(old, inResource) ==
    LET described == [old EXCEPT !.type = inResource.type,
                                 !.format = inResource.format,
                                 !.width = inResource.width,
                                 !.height = inResource.height,
                                 !.depth = inResource.depth,
                                 !.mipCount = inResource.mipCount,
                                 !.state = inResource.state]
    IN  IF inResource.type = "FFX_RESOURCE_TYPE_BUFFER"
        THEN [described EXCEPT !.buffer = inResource.resource]
        ELSE [described EXCEPT
                 !.textureAllMipsView = inResource.resource,
                 !.textureSingleMipViews =
                     IF Len(@) = 0 THEN <<inResource.resource>>
                     ELSE [@ EXCEPT ![1] = inResource.resource],
                 !.textureAspect =
                     IF inResource.resource # 0
                     THEN (IF inResource.isDepth THEN "DEPTH" ELSE "COLOR")
                     ELSE @]

(***************************************************************************)
(* RegisterResourceGL: a null resource gets the null identifier; any other *)
(* takes the next slot from the top of the pool.                           *)
(***************************************************************************)
RegisterResourceGL(inResource) ==
    IF inResource.resource = 0
    THEN /\ call' = [op |-> "RegisterResourceGL", null |-> TRUE, ret |-> FFX_OK,
                     internalIndex |-> FFX_FSR2_RESOURCE_IDENTIFIER_NULL]
         /\ UNCHANGED <<iface, glGetProcAddress, lifeVars, counterVars, glVars,
                        poolHistory, jobHistory>>
    ELSE LET a == DynamicAllocate(nextDynamicResource)
         IN  /\ assertFailed' =
                   (assertFailed \/ ~U32Less(nextStaticResource, nextDynamicResource))
             /\ call' = [op |-> "RegisterResourceGL", null |-> FALSE, ret |-> FFX_OK,
                         internalIndex |-> a.index]
             /\ dynamicIdx' = dynamicIdx \cup {a.index}
             /\ registerCount' = registerCount + 1
             /\ IF a.index \in ResourceIndices
                THEN /\ nextDynamicResource' = a.next
                     /\ resources' =
                           [resources EXCEPT
                               ![a.index] = RegisteredResource(@, inResource)]
                     /\ UNCHANGED <<ub, nextStaticResource, stagingResourceCount>>
                ELSE /\ UndefinedBehaviour
                     /\ UNCHANGED resources
             /\ UNCHANGED <<iface, glGetProcAddress, phase, jobVars, ringVars, glVars,
                            staticIdx, jobHistory>>

(***************************************************************************)
(* UnregisterResourcesGL: the value the dynamic allocator restarts from.   *)
(***************************************************************************)
UnregisterResourcesGL_keepsCursor == nextDynamicResource

UnregisterResourcesGL_next == FSR2_MAX_RESOURCE_COUNT - 1

UnregisterResourcesGL ==
    /\ nextDynamicResource' = UnregisterResourcesGL_next
    /\ call' = [op |-> "UnregisterResourcesGL", ret |-> FFX_OK]
    /\ dynamicIdx' = {}
    /\ registerCount' = 0
    /\ UNCHANGED <<iface, glGetProcAddress, lifeVars, nextStaticResource,
                   stagingResourceCount, resources, jobVars, ringVars, glVars,
                   staticIdx, jobHistory>>

RECURSIVE Log2Floor(_)
Log2Floor(n) == IF n <= 1 THEN 0 ELSE 1 + Log2Floor(n \div 2)

Max(a, b) == IF a >= b THEN a ELSE b

(***************************************************************************)
(* The mip count CreateResourceGL stores: the requested one, or for 0 the  *)
(* full chain 1 + floor(log2(max(width, height, depth))).                  *)
(***************************************************************************)
CreatedMipCount(desc) ==
    IF desc.mipCount = 0
    THEN 1 + Log2Floor(Max(Max(desc.width, desc.height), desc.depth))
    ELSE desc.mipCount

(***************************************************************************)
(* The slot CreateResourceGL leaves: the description (state is not         *)
(* assigned), and for a buffer one new buffer name, for a texture one new  *)
(* texture name, the COLOR aspect and one new view name per mip.           *)
(***************************************************************************)
CreatedResource(old, desc, firstName) ==
    LET described == [old EXCEPT !.type = desc.type,
                                 !.format = desc.format,
                                 !.width = desc.width,
                                 !.height = desc.height,
                                 !.depth = desc.depth,
                                 !.mipCount = CreatedMipCount(desc)]
    IN  IF desc.type = "FFX_RESOURCE_TYPE_BUFFER"
        THEN [described EXCEPT !.buffer = firstName]
        ELSE [described EXCEPT
                 !.textureAllMipsView = firstName,
                 !.textureAspect = "COLOR",
                 !.textureSingleMipViews =
                     [i \in 1 .. Max(Len(@), CreatedMipCount(desc)) |->
                         IF i <= CreatedMipCount(desc) THEN firstName + i ELSE @[i]]]

(***************************************************************************)
(* The GL names CreateResourceGL creates for desc.                         *)
(***************************************************************************)
CreatedNameCount(desc) ==
    IF desc.type = "FFX_RESOURCE_TYPE_BUFFER" THEN 1 ELSE 1 + CreatedMipCount(desc)

(***************************************************************************)
(* CreateResourceGL: takes the next slot from the bottom of the pool and   *)
(* creates the GL objects of the resource.                                 *)
(***************************************************************************)
CreateResourceGL(desc) ==
    LET a == StaticAllocate(nextStaticResource)
    IN  /\ assertFailed' =
              (assertFailed \/ ~U32Less(nextStaticResource + 1, nextDynamicResource))
        /\ call' = [op |-> "CreateResourceGL", ret |-> FFX_OK, internalIndex |-> a.index]
        /\ staticIdx' = staticIdx \cup {a.index}
        /\ IF a.index \in ResourceIndices
           THEN /\ nextStaticResource' = a.next
                /\ resources' =
                      [resources EXCEPT ![a.index] = CreatedResource(@, desc, glNextName)]
                /\ glNextName' = glNextName + CreatedNameCount(desc)
                /\ glLive' = glLive \cup
                               (glNextName .. (glNextName + CreatedNameCount(desc) - 1))
                /\ UNCHANGED <<ub, nextDynamicResource, stagingResourceCount>>
           ELSE /\ UndefinedBehaviour
                /\ UNCHANGED <<resources, glVars>>
        /\ UNCHANGED <<iface, glGetProcAddress, phase, jobVars, ringVars,
                       dynamicIdx, registerCount, jobHistory>>

(***************************************************************************)
(* The by-value copy ScheduleGpuJobGL stores: the whole description, then  *)
(* for a compute job the size and the first uint32Size words of each of    *)
(* the pipeline's constCount constant buffers once more.                   *)
(***************************************************************************)
StoredJob_dropsConstants(job) ==
    IF job.jobType = "FFX_GPU_JOB_COMPUTE"
    THEN [job EXCEPT !.cbs = [i \in DOMAIN job.cbs |->
                                 [uint32Size |-> 0, data |-> <<>>]]]
    ELSE job

StoredJob(job) ==
    LET copy == job
    IN  IF job.jobType = "FFX_GPU_JOB_COMPUTE"
        THEN [copy EXCEPT !.cbs =
                 [i \in DOMAIN copy.cbs |->
                     IF i <= job.pipeline.constCount
                     THEN [uint32Size |-> job.cbs[i].uint32Size,
                           data |-> [w \in DOMAIN copy.cbs[i].data |->
                                        IF w <= job.cbs[i].uint32Size
                                        THEN job.cbs[i].data[w]
                                        ELSE copy.cbs[i].data[w]]]
                     ELSE copy.cbs[i]]]
        ELSE copy

(***************************************************************************)
(* ScheduleGpuJobGL: copies the job into gpuJobs[gpuJobCount] and          *)
(* increments gpuJobCount.                                                 *)
(***************************************************************************)
ScheduleGpuJobGL(job) ==
    /\ assertFailed' = (assertFailed \/ ~U32Less(gpuJobCount, FSR2_MAX_GPU_JOBS))
    /\ call' = [op |-> "ScheduleGpuJobGL", ret |-> FFX_OK]
    /\ gpuJobCount' = gpuJobCount + 1
    /\ IF gpuJobCount \in JobIndices
       THEN /\ gpuJobs' = [gpuJobs EXCEPT ![gpuJobCount] = StoredJob(job)]
            /\ UNCHANGED <<ub, nextStaticResource, nextDynamicResource,
                           stagingResourceCount>>
       ELSE /\ UndefinedBehaviour
            /\ UNCHANGED gpuJobs
    /\ accepted' = Append(accepted, job)
    /\ scheduledTotal' = scheduledTotal + 1
    /\ UNCHANGED <<iface, glGetProcAddress, phase, resources, ringVars, glVars,
                   poolHistory, callerJob, executed, glCalls, acquireCount>>

(***************************************************************************)
(* The state ffxFsr2GetInterfaceGL leaves on success: the interface is     *)
(* filled and the context holds the loader and otherwise unknown memory.   *)
(***************************************************************************)
InitContext ==
    /\ call = NoCall
    /\ iface = [fp |-> GLCallbacks, scratchBuffer |-> "scratch",
                scratchBufferSize |-> ffxFsr2GetScratchMemorySizeGL]
    /\ glGetProcAddress = "loaderA"
    /\ gpuJobCount \in GarbageU32
    /\ nextStaticResource \in GarbageU32
    /\ nextDynamicResource \in GarbageU32
    /\ uboRingBufferIndex \in GarbageU32
    /\ stagingResourceCount = 0
    /\ ArraysUninit
    /\ phase = "interface"
    /\ NoFault
    /\ GLFresh
    /\ PoolHistoryEmpty
    /\ JobHistoryEmpty

(***************************************************************************)
(* Resources and jobs the caller passes in the resource-pool               *)
(* specification.                                                          *)
(***************************************************************************)
PoolCreateDescriptions ==
    {[type |-> "FFX_RESOURCE_TYPE_BUFFER", format |-> "FFX_SURFACE_FORMAT_UNKNOWN",
      width |-> 16, height |-> 1, depth |-> 1, mipCount |-> 1],
     [type |-> "FFX_RESOURCE_TYPE_TEXTURE2D", format |-> "FFX_SURFACE_FORMAT_R16_FLOAT",
      width |-> 4, height |-> 2, depth |-> 1, mipCount |-> 0]}

PoolInResources ==
    {ffxGetTextureResourceGL(0, 4, 2, "GL_RGBA16F", {"COMPUTE_READ"}),
     ffxGetTextureResourceGL(900, 4, 2, "GL_RGBA16F", {"COMPUTE_READ"})}

PoolJobs ==
    {[jobType |-> "FFX_GPU_JOB_CLEAR_FLOAT", target |-> 0, color |-> <<0, 0, 0, 0>>]}

PoolCreateBackendContext ==
    /\ phase = "interface"
    /\ \E f \in MapFailurePoints : CreateBackendContextGL(f)

PoolCreateResource ==
    /\ phase = "created" /\ ~ub
    /\ Cardinality(staticIdx) < MaxStatic
    /\ \E d \in PoolCreateDescriptions : CreateResourceGL(d)

PoolRegisterResource ==
    /\ phase = "created" /\ ~ub
    /\ \E r \in PoolInResources : RegisterResourceGL(r)

PoolUnregisterResources ==
    /\ phase = "created" /\ ~ub
    /\ UnregisterResourcesGL

PoolScheduleGpuJob ==
    /\ phase = "created" /\ ~ub
    /\ gpuJobCount < MaxQueued
    /\ \E j \in PoolJobs : ScheduleGpuJobGL(j)

NextPool ==
    \/ PoolCreateBackendContext
    \/ PoolCreateResource
    \/ PoolRegisterResource
    \/ PoolUnregisterResources
    \/ PoolScheduleGpuJob

SpecPool == InitContext /\ [][NextPool]_vars


(***************************************************************************)
(* C3: after CreateBackendContextGL, as long as the allocation assertions  *)
(* of the calls made have held, the indices CreateResourceGL returned are  *)
(* exactly 0..nextStaticResource-1, the indices non-null                   *)
(* RegisterResourceGL calls returned since the last UnregisterResourcesGL  *)
(* are exactly nextDynamicResource+1..63, nextStaticResource <=            *)
(* nextDynamicResource, and no index is both a static and a live dynamic   *)
(* one.                                                                    *)
(***************************************************************************)
C3_AllocatorsDisjoint ==
    (phase = "created" /\ ~assertFailed) =>
        /\ staticIdx = 0 .. (nextStaticResource - 1)
        /\ dynamicIdx = (nextDynamicResource + 1) .. 63
        /\ nextStaticResource <= nextDynamicResource
        /\ staticIdx \cap dynamicIdx = {}

C3_Witness ==
    /\ phase = "created"
    /\ ~assertFailed
    /\ nextStaticResource = 1
    /\ nextDynamicResource = 1
    /\ staticIdx = {0}
    /\ dynamicIdx = 2 .. 63

(***************************************************************************)
(* C4: UnregisterResourcesGL returns FFX_OK and leaves nextDynamicResource *)
(* at 63 whatever it was, and the k-th non-null RegisterResourceGL since   *)
(* the last UnregisterResourcesGL (or since CreateBackendContextGL)        *)
(* returns index 63-(k-1).                                                 *)
(***************************************************************************)
C4_UnregisterRestartsAtTop ==
    ~ub =>
        /\ call.op = "UnregisterResourcesGL" =>
              (call.ret = FFX_OK /\ nextDynamicResource = 63)
        /\ (call.op = "RegisterResourceGL" /\ ~call.null) =>
              (call.ret = FFX_OK /\ call.internalIndex = 63 - (registerCount - 1))

C4_Witness ==
    /\ call.op = "RegisterResourceGL"
    /\ ~call.null
    /\ registerCount = 2
    /\ call.internalIndex = 62
    /\ resources[40] # UninitResource
    /\ ~ub

(***************************************************************************)
(* C5: RegisterResourceGL, UnregisterResourcesGL and ScheduleGpuJobGL      *)
(* leave nextStaticResource and the description and GL names of every slot *)
(* CreateResourceGL handed out unchanged, and delete no GL object, in any  *)
(* interleaving of these calls.  The source guards the dynamic allocator   *)
(* only by FFX_ASSERT(nextDynamicResource > nextStaticResource), which     *)
(* does not stop the call: once the dynamic cursor has reached the static  *)
(* slots, RegisterResourceGL writes the registered resource over a static  *)
(* one.                                                                    *)
(***************************************************************************)
StaticSlotsKept ==
    /\ nextStaticResource' = nextStaticResource
    /\ glLive' = glLive
    /\ \A i \in staticIdx \cap ResourceIndices :
          /\ resources'[i].type = resources[i].type
          /\ resources'[i].format = resources[i].format
          /\ resources'[i].width = resources[i].width
          /\ resources'[i].height = resources[i].height
          /\ resources'[i].depth = resources[i].depth
          /\ resources'[i].mipCount = resources[i].mipCount
          /\ resources'[i].buffer = resources[i].buffer
          /\ resources'[i].textureAllMipsView = resources[i].textureAllMipsView
          /\ resources'[i].textureSingleMipViews = resources[i].textureSingleMipViews

C5_StaticSlotsKeptAlways ==
    [][call'.op \in {"RegisterResourceGL", "UnregisterResourcesGL", "ScheduleGpuJobGL"}
          => StaticSlotsKept]_vars


(***************************************************************************)
(* Bounds of the job and ring specifications.  MaxConstWords is the number *)
(* of words of a constant buffer's data array the model keeps, MaxAcquire  *)
(* caps the accquireDynamicUBO calls of the ring specification and         *)
(* MaxScheduled the ScheduleGpuJobGL calls of the job specification.       *)
(***************************************************************************)
MaxConstWords == 2
MaxAcquire == 146
MaxScheduled == 2

(***************************************************************************)
(* The part of the context and of the GL the execute functions work on,    *)
(* as one value that each step of ExecuteGpuJobsGL maps to the next.       *)
(***************************************************************************)
Machine ==
    [resources |-> resources,
     uboRingBuffer |-> uboRingBuffer,
     uboRingBufferIndex |-> uboRingBufferIndex,
     linearSampler |-> linearSampler,
     glCalls |-> <<>>,
     executed |-> <<>>,
     errorCode |-> FFX_OK,
     assertFailed |-> assertFailed,
     ub |-> FALSE,
     acquireCount |-> acquireCount]

(***************************************************************************)
(* A pData argument of accquireDynamicUBO: NULL, or the words it points    *)
(* to.                                                                     *)
(***************************************************************************)
NullData == [null |-> TRUE, words |-> <<>>]
Data(words) == [null |-> FALSE, words |-> words]

Min(a, b) == IF a <= b THEN a ELSE b

(***************************************************************************)
(* accquireDynamicUBO: returns the ring entry under the cursor, copies     *)
(* size bytes of pData into its mapped memory when pData is not NULL, and  *)
(* advances the cursor, wrapping at FSR2_UBO_RING_BUFFER_SIZE.  The        *)
(* buffers hold 256 bytes: a larger copy runs past the mapping.            *)
(***************************************************************************)
accquireDynamicUBO_noWrap(m, size, pData) ==
    [ubo |-> IF m.uboRingBufferIndex \in RingIndices
             THEN m.uboRingBuffer[m.uboRingBufferIndex] ELSE UninitUbo,
     m |-> [m EXCEPT !.uboRingBufferIndex = @ + 1, !.acquireCount = @ + 1]]

accquireDynamicUBO(m, size, pData) ==
    IF m.uboRingBufferIndex \notin RingIndices
    THEN [ubo |-> UninitUbo, m |-> [m EXCEPT !.ub = TRUE]]
    ELSE LET ubo == m.uboRingBuffer[m.uboRingBufferIndex]
             next == m.uboRingBufferIndex + 1
         IN  [ubo |-> ubo,
              m |-> [m EXCEPT
                  !.assertFailed = @ \/ size > 256,
                  !.ub = @ \/ (~pData.null /\ size > 256),
                  !.glCalls =
                      IF pData.null THEN @
                      ELSE Append(@, [fn |-> "memcpy", dst |-> ubo.pData,
                                      src |-> SubSeq(pData.words, 1,
                                                     Min(size \div 4, Len(pData.words)))]),
                  !.uboRingBufferIndex =
                      IF ~U32Less(next, FSR2_UBO_RING_BUFFER_SIZE) THEN 0 ELSE next,
                  !.acquireCount = @ + 1]]

(***************************************************************************)
(* addBarrier without the bits of the two copy states.                     *)
(***************************************************************************)
addBarrier_withoutCopyBits(m, internalIndex, newState) ==
    LET isBuffer == m.resources[internalIndex].type = "FFX_RESOURCE_TYPE_BUFFER"
        bits(state, mask) == IF state \in newState THEN mask ELSE {}
    IN  [m EXCEPT !.resources[internalIndex].state = newState,
                  !.glCalls = Append(@,
                      [fn |-> "glMemoryBarrier", resource |-> internalIndex,
                       barriers |->
                           IF isBuffer
                           THEN bits("UNORDERED_ACCESS", {"GL_SHADER_STORAGE_BARRIER_BIT"})
                                \cup bits("COMPUTE_READ", {"GL_UNIFORM_BARRIER_BIT"})
                           ELSE bits("UNORDERED_ACCESS",
                                     {"GL_SHADER_IMAGE_ACCESS_BARRIER_BIT"})
                                \cup bits("COMPUTE_READ",
                                          {"GL_SHADER_IMAGE_ACCESS_BARRIER_BIT",
                                           "GL_TEXTURE_FETCH_BARRIER_BIT"})])]

(***************************************************************************)
(* addBarrier: records newState as the resource's state and issues one     *)
(* glMemoryBarrier with the bits of the states in newState.                *)
(***************************************************************************)
addBarrier(m, internalIndex, newState) ==
    IF internalIndex \notin ResourceIndices
    THEN [m EXCEPT !.ub = TRUE]
    ELSE LET bits(state, mask) == IF state \in newState THEN mask ELSE {}
             barriers ==
                 IF m.resources[internalIndex].type = "FFX_RESOURCE_TYPE_BUFFER"
                 THEN bits("UNORDERED_ACCESS", {"GL_SHADER_STORAGE_BARRIER_BIT"})
                      \cup bits("COMPUTE_READ", {"GL_UNIFORM_BARRIER_BIT"})
                      \cup bits("COPY_SRC", {"GL_BUFFER_UPDATE_BARRIER_BIT",
                                             "GL_PIXEL_BUFFER_BARRIER_BIT"})
                      \cup bits("COPY_DEST", {"GL_BUFFER_UPDATE_BARRIER_BIT",
                                              "GL_PIXEL_BUFFER_BARRIER_BIT"})
                 ELSE bits("UNORDERED_ACCESS", {"GL_SHADER_IMAGE_ACCESS_BARRIER_BIT"})
                      \cup bits("COMPUTE_READ", {"GL_SHADER_IMAGE_ACCESS_BARRIER_BIT",
                                                 "GL_TEXTURE_FETCH_BARRIER_BIT"})
                      \cup bits("COPY_SRC", {"GL_TEXTURE_UPDATE_BARRIER_BIT"})
                      \cup bits("COPY_DEST", {"GL_TEXTURE_UPDATE_BARRIER_BIT"})
         IN  [m EXCEPT !.resources[internalIndex].state = newState,
                       !.glCalls = Append(@, [fn |-> "glMemoryBarrier",
                                              resource |-> internalIndex,
                                              barriers |-> barriers])]

(***************************************************************************)
(* executeGpuJobCompute, first loop: barrier and image binding of each     *)
(* UAV.                                                                    *)
(***************************************************************************)
RECURSIVE executeGpuJobCompute_uavs(_, _, _)
executeGpuJobCompute_uavs(m, job, uav) ==
    IF m.ub \/ ~U32Less(uav, job.pipeline.uavCount)
    THEN m
    ELSE LET b == addBarrier(m, job.uavs[uav + 1], {"UNORDERED_ACCESS"})
         IN  IF b.ub THEN b
             ELSE LET ffxResource == b.resources[job.uavs[uav + 1]]
                      mip == job.uavMip[uav + 1]
                      view == IF mip + 1 \in DOMAIN ffxResource.textureSingleMipViews
                              THEN ffxResource.textureSingleMipViews[mip + 1]
                              ELSE -1
                  IN  executeGpuJobCompute_uavs(
                          [b EXCEPT
                              !.assertFailed =
                                  @ \/ ~getGLFormatFromSurfaceFormat_accepts(ffxResource.format),
                              !.glCalls = Append(@,
                                  [fn |-> "glBindImageTexture",
                                   unit |-> job.pipeline.uavResourceBindings[uav + 1],
                                   texture |-> view,
                                   resource |-> job.uavs[uav + 1],
                                   format |-> getGLFormatFromSurfaceFormat(ffxResource.format)])],
                          job, uav + 1)

(***************************************************************************)
(* executeGpuJobCompute, second loop: barrier, texture and sampler binding *)
(* of each SRV.                                                            *)
(***************************************************************************)
RECURSIVE executeGpuJobCompute_srvs(_, _, _)
executeGpuJobCompute_srvs(m, job, srv) ==
    IF m.ub \/ ~U32Less(srv, job.pipeline.srvCount)
    THEN m
    ELSE LET b == addBarrier(m, job.srvs[srv + 1], {"COMPUTE_READ"})
         IN  IF b.ub THEN b
             ELSE LET ffxResource == b.resources[job.srvs[srv + 1]]
                      slot == job.pipeline.srvResourceBindings[srv + 1]
                  IN  executeGpuJobCompute_srvs(
                          [b EXCEPT !.glCalls = @ \o
                              <<[fn |-> "glBindTextureUnit", unit |-> slot,
                                 texture |-> ffxResource.textureAllMipsView,
                                 resource |-> job.srvs[srv + 1]],
                                [fn |-> "glBindSampler", unit |-> slot,
                                 sampler |-> b.linearSampler]>>],
                          job, srv + 1)

(***************************************************************************)
(* executeGpuJobCompute, third loop: a ring buffer for each constant       *)
(* buffer, filled and bound.                                               *)
(***************************************************************************)
RECURSIVE executeGpuJobCompute_cbs(_, _, _)
executeGpuJobCompute_cbs(m, job, i) ==
    IF m.ub \/ ~U32Less(i, job.pipeline.constCount)
    THEN m
    ELSE LET a == accquireDynamicUBO(m, job.cbs[i + 1].uint32Size * 4,
                                     Data(job.cbs[i + 1].data))
         IN  IF a.m.ub THEN a.m
             ELSE executeGpuJobCompute_cbs(
                      [a.m EXCEPT !.glCalls = Append(@,
                          [fn |-> "glBindBufferRange",
                           index |-> job.pipeline.cbResourceBindings[i + 1],
                           buffer |-> a.ubo.bufferResource,
                           size |-> 256])],
                      job, i + 1)

(***************************************************************************)
(* executeGpuJobCompute with the SRV loop ahead of the UAV loop.           *)
(***************************************************************************)
executeGpuJobCompute_srvsFirst(m, job) ==
    LET bound == executeGpuJobCompute_cbs(
                     executeGpuJobCompute_uavs(
                         executeGpuJobCompute_srvs(m, job, 0), job, 0), job, 0)
    IN  IF bound.ub THEN bound
        ELSE [bound EXCEPT
                 !.glCalls = @ \o
                     <<[fn |-> "glUseProgram", program |-> job.pipeline.pipeline],
                       [fn |-> "glDispatchCompute", dimensions |-> job.dimensions]>>,
                 !.errorCode = FFX_OK]

(***************************************************************************)
(* executeGpuJobCompute                                                    *)
(***************************************************************************)
executeGpuJobCompute(m, job) ==
    LET bound == executeGpuJobCompute_cbs(
                     executeGpuJobCompute_srvs(
                         executeGpuJobCompute_uavs(m, job, 0), job, 0), job, 0)
    IN  IF bound.ub THEN bound
        ELSE [bound EXCEPT
                 !.glCalls = @ \o
                     <<[fn |-> "glUseProgram", program |-> job.pipeline.pipeline],
                       [fn |-> "glDispatchCompute", dimensions |-> job.dimensions]>>,
                 !.errorCode = FFX_OK]

(***************************************************************************)
(* executeGpuJobCopy: not implemented; it asserts and reports success.     *)
(***************************************************************************)
executeGpuJobCopy(m, job) ==
    [m EXCEPT !.assertFailed = TRUE, !.errorCode = FFX_OK]

(***************************************************************************)
(* executeGpuJobClearFloat: a texture target gets a COPY_DEST barrier and  *)
(* one glClearTexImage per mip; a buffer target is left alone.             *)
(***************************************************************************)
executeGpuJobClearFloat_noBarrier(m, job) ==
    IF job.target \notin ResourceIndices
    THEN [m EXCEPT !.ub = TRUE]
    ELSE LET ffxResource == m.resources[job.target]
         IN  [m EXCEPT
                 !.glCalls = @ \o
                     [i \in 1 .. (IF ffxResource.type # "FFX_RESOURCE_TYPE_BUFFER"
                                  THEN Max(ffxResource.mipCount, 0) ELSE 0) |->
                         [fn |-> "glClearTexImage",
                          texture |-> ffxResource.textureAllMipsView,
                          level |-> i - 1,
                          color |-> job.color]],
                 !.errorCode = FFX_OK]

executeGpuJobClearFloat(m, job) ==
    IF job.target \notin ResourceIndices
    THEN [m EXCEPT !.ub = TRUE]
    ELSE LET ffxResource == m.resources[job.target]
         IN  IF ffxResource.type # "FFX_RESOURCE_TYPE_BUFFER"
             THEN LET b == addBarrier(m, job.target, {"COPY_DEST"})
                  IN  [b EXCEPT
                          !.glCalls = @ \o
                              [i \in 1 .. Max(ffxResource.mipCount, 0) |->
                                  [fn |-> "glClearTexImage",
                                   texture |-> ffxResource.textureAllMipsView,
                                   level |-> i - 1,
                                   color |-> job.color]],
                          !.errorCode = FFX_OK]
             ELSE [m EXCEPT !.errorCode = FFX_OK]

(***************************************************************************)
(* ExecuteGpuJobsGL, the loop over gpuJobs[0 .. gpuJobCount-1]: each job   *)
(* goes to the execute function of its type, a job of no known type to     *)
(* none.                                                                   *)
(***************************************************************************)
RECURSIVE ExecuteGpuJobsGL_loop(_, _)
ExecuteGpuJobsGL_loop(m, i) ==
    IF m.ub \/ ~U32Less(i, gpuJobCount)
    THEN m
    ELSE IF i \notin JobIndices
    THEN [m EXCEPT !.ub = TRUE]
    ELSE LET gpuJob == gpuJobs[i]
             handed == [m EXCEPT !.executed = Append(@, gpuJob)]
         IN  ExecuteGpuJobsGL_loop(
                 CASE gpuJob.jobType = "FFX_GPU_JOB_CLEAR_FLOAT" ->
                          executeGpuJobClearFloat(handed, gpuJob)
                   [] gpuJob.jobType = "FFX_GPU_JOB_COPY" ->
                          executeGpuJobCopy(handed, gpuJob)
                   [] gpuJob.jobType = "FFX_GPU_JOB_COMPUTE" ->
                          executeGpuJobCompute(handed, gpuJob)
                   [] OTHER -> m,
                 i + 1)

(***************************************************************************)
(* ExecuteGpuJobsGL, after the loop: the job count it leaves.              *)
(***************************************************************************)
ExecuteGpuJobsGL_keepsQueue(errorCode, count) == count

ExecuteGpuJobsGL_gpuJobCount(errorCode, count) ==
    IF errorCode = FFX_OK THEN 0 ELSE count

(***************************************************************************)
(* ExecuteGpuJobsGL                                                        *)
(***************************************************************************)
ExecuteGpuJobsGL ==
    LET m == ExecuteGpuJobsGL_loop(Machine, 0)
    IN  /\ resources' = m.resources
        /\ uboRingBufferIndex' = m.uboRingBufferIndex
        /\ glCalls' = m.glCalls
        /\ executed' = m.executed
        /\ assertFailed' = m.assertFailed
        /\ acquireCount' = m.acquireCount
        /\ accepted' = <<>>
        /\ IF m.ub
           THEN /\ UndefinedBehaviour
                /\ UNCHANGED gpuJobCount
                /\ call' = [op |-> "ExecuteGpuJobsGL", ret |-> FFX_OK]
           ELSE /\ gpuJobCount' = ExecuteGpuJobsGL_gpuJobCount(m.errorCode, gpuJobCount)
                /\ call' = [op |-> "ExecuteGpuJobsGL",
                            ret |-> IF m.errorCode = FFX_OK
                                    THEN FFX_OK ELSE FFX_ERROR_BACKEND_API_ERROR]
                /\ UNCHANGED <<ub, nextStaticResource, nextDynamicResource,
                               stagingResourceCount>>
        /\ UNCHANGED <<iface, glGetProcAddress, phase, gpuJobs, pointSampler,
                       linearSampler, uboRingBuffer, glVars, poolHistory, callerJob,
                       scheduledTotal>>

(***************************************************************************)
(* Specification of the uniform-buffer ring: the context is created and    *)
(* ring buffers are acquired, with every size and with and without data.   *)
(***************************************************************************)
RingSizes == {0, 8, 256, 260}
RingData == {NullData, Data([w \in 1 .. MaxConstWords |-> 40 + w])}

RingCreateBackendContext ==
    /\ phase = "interface"
    /\ \E f \in MapFailurePoints : CreateBackendContextGL(f)

RingAcquire ==
    /\ phase = "created" /\ ~ub
    /\ acquireCount < MaxAcquire
    /\ \E size \in RingSizes, pData \in RingData :
          LET a == accquireDynamicUBO(Machine, size, pData)
          IN  /\ call' = [op |-> "accquireDynamicUBO", n |-> acquireCount,
                          ubo |-> a.ubo]
              /\ uboRingBufferIndex' = a.m.uboRingBufferIndex
              /\ acquireCount' = a.m.acquireCount
              /\ glCalls' = a.m.glCalls
              /\ assertFailed' = a.m.assertFailed
              /\ IF a.m.ub
                 THEN UndefinedBehaviour
                 ELSE UNCHANGED <<ub, nextStaticResource, nextDynamicResource,
                                  stagingResourceCount>>
    /\ UNCHANGED <<iface, glGetProcAddress, phase, resources, jobVars, pointSampler,
                   linearSampler, uboRingBuffer, glVars, poolHistory, callerJob,
                   accepted, executed, scheduledTotal>>

NextRing ==
    \/ RingCreateBackendContext
    \/ RingAcquire

SpecRing == InitContext /\ [][NextRing]_vars

(***************************************************************************)
(* C6: after CreateBackendContextGL the ring cursor is in                  *)
(* 0 .. FSR2_UBO_RING_BUFFER_SIZE-1 in every state; the n-th               *)
(* accquireDynamicUBO call, counting from 0, returns ring entry            *)
(* n mod FSR2_UBO_RING_BUFFER_SIZE and leaves the cursor one entry on; and *)
(* an acquisition creates no GL buffer: the live GL objects are those      *)
(* CreateBackendContextGL made.                                            *)
(***************************************************************************)
C6_RingCursorInRange ==
    (phase = "created" /\ ~ub) =>
        /\ uboRingBufferIndex \in RingIndices
        /\ uboRingBufferIndex = acquireCount % FSR2_UBO_RING_BUFFER_SIZE
        /\ call.op = "accquireDynamicUBO" =>
              /\ call.ubo = uboRingBuffer[call.n % FSR2_UBO_RING_BUFFER_SIZE]
              /\ call.n = acquireCount - 1
        /\ glLive = 1 .. (2 + FSR2_UBO_RING_BUFFER_SIZE)
        /\ glNextName = 3 + FSR2_UBO_RING_BUFFER_SIZE

C6_Witness ==
    /\ phase = "created" /\ ~ub
    /\ call.op = "accquireDynamicUBO"
    /\ call.n = FSR2_UBO_RING_BUFFER_SIZE + 1
    /\ call.ubo = uboRingBuffer[1]
    /\ uboRingBufferIndex = 2
    /\ Len(glCalls) > 0


(***************************************************************************)
(* Job descriptions of the job specification: a clear, a copy and two      *)
(* compute jobs on the resource of slot 0, the compute jobs with one and   *)
(* with two constant buffers.                                              *)
(***************************************************************************)
ClearJob ==
    [jobType |-> "FFX_GPU_JOB_CLEAR_FLOAT", target |-> 0, color |-> <<1, 0, 0, 1>>]

CopyJob == [jobType |-> "FFX_GPU_JOB_COPY", src |-> 0, dst |-> 0]

ComputeJob(constCount, first) ==
    [jobType |-> "FFX_GPU_JOB_COMPUTE",
     pipeline |-> [pipeline |-> 70 + constCount,
                   uavCount |-> 1, srvCount |-> 1, constCount |-> constCount,
                   uavResourceBindings |-> <<2>>,
                   srvResourceBindings |-> <<0>>,
                   cbResourceBindings |-> <<3, 4>>],
     dimensions |-> <<8, 4, 1>>,
     uavs |-> <<0>>, uavMip |-> <<1>>, srvs |-> <<0>>,
     cbs |-> <<[uint32Size |-> MaxConstWords,
                data |-> [w \in 1 .. MaxConstWords |-> first + w]],
               [uint32Size |-> 1,
                data |-> [w \in 1 .. MaxConstWords |-> first + 10 + w]]>>]

JobDescriptions == {ClearJob, CopyJob, ComputeJob(1, 20), ComputeJob(2, 50)}

(***************************************************************************)
(* The caller fills in or changes its job description.                     *)
(***************************************************************************)
CallerWritesJob(job) ==
    /\ callerJob' = job
    /\ call' = [op |-> "callerWritesJob", ret |-> FFX_OK]
    /\ UNCHANGED <<iface, glGetProcAddress, lifeVars, counterVars, glVars,
                   poolHistory, accepted, executed, glCalls, acquireCount,
                   scheduledTotal>>

(***************************************************************************)
(* Specification of the job queue: the context and one resource are        *)
(* created; the caller writes job descriptions, schedules them and has     *)
(* them executed, and may change its description after scheduling it.      *)
(***************************************************************************)
JobsCreateBackendContext ==
    /\ phase = "interface"
    /\ CreateBackendContextGL(FSR2_UBO_RING_BUFFER_SIZE)

JobsCreateResource ==
    /\ phase = "created" /\ ~ub
    /\ Cardinality(staticIdx) < MaxStatic
    /\ \E d \in PoolCreateDescriptions : CreateResourceGL(d)

JobsCallerWritesJob ==
    /\ phase = "created" /\ ~ub
    /\ 0 \in staticIdx
    /\ \E j \in JobDescriptions \ {callerJob} : CallerWritesJob(j)

JobsScheduleGpuJob ==
    /\ phase = "created" /\ ~ub
    /\ callerJob # NoJob
    /\ scheduledTotal < MaxScheduled
    /\ callerJob.jobType = "FFX_GPU_JOB_COMPUTE" =>
           resources[0].type = "FFX_RESOURCE_TYPE_TEXTURE2D"
    /\ ScheduleGpuJobGL(callerJob)

JobsExecuteGpuJobs ==
    /\ phase = "created" /\ ~ub
    /\ ExecuteGpuJobsGL

NextJobs ==
    \/ JobsCreateBackendContext
    \/ JobsCreateResource
    \/ JobsCallerWritesJob
    \/ JobsScheduleGpuJob
    \/ JobsExecuteGpuJobs

SpecJobs == InitContext /\ [][NextJobs]_vars

ConstantWords(job) ==
    IF job.jobType = "FFX_GPU_JOB_COMPUTE"
    THEN [i \in 1 .. job.pipeline.constCount |->
             SubSeq(job.cbs[i].data, 1, job.cbs[i].uint32Size)]
    ELSE <<>>

RECURSIVE ConstantWordsOfAll(_)
ConstantWordsOfAll(jobs) ==
    IF jobs = <<>> THEN <<>>
    ELSE ConstantWords(Head(jobs)) \o ConstantWordsOfAll(Tail(jobs))

RECURSIVE CopiedWords(_)
CopiedWords(calls) ==
    IF calls = <<>> THEN <<>>
    ELSE (IF Head(calls).fn = "memcpy" THEN <<Head(calls).src>> ELSE <<>>)
         \o CopiedWords(Tail(calls))

(***************************************************************************)
(* C8: ScheduleGpuJobGL stores in gpuJobs[gpuJobCount] a copy equal to the *)
(* description it is passed, constant buffers included, increments         *)
(* gpuJobCount by one and changes no other entry of gpuJobs; a change of   *)
(* the caller's description after that changes no queued job; and          *)
(* ExecuteGpuJobsGL copies into the ring buffers the constants the         *)
(* descriptions held when they were scheduled.                             *)
(***************************************************************************)
C8_ScheduleStoresCopy ==
    [][/\ (call'.op = "ScheduleGpuJobGL" /\ ~ub') =>
              /\ gpuJobCount' = gpuJobCount + 1
              /\ gpuJobs'[gpuJobCount] = callerJob
              /\ \A i \in JobIndices \ {gpuJobCount} : gpuJobs'[i] = gpuJobs[i]
       /\ call'.op = "callerWritesJob" =>
              /\ gpuJobs' = gpuJobs
              /\ gpuJobCount' = gpuJobCount
       /\ (call'.op = "ExecuteGpuJobsGL" /\ ~ub') =>
              CopiedWords(glCalls') = ConstantWordsOfAll(accepted)]_vars

C8_Witness ==
    /\ call.op = "ExecuteGpuJobsGL"
    /\ ~ub
    /\ executed = <<ComputeJob(1, 20)>>
    /\ callerJob = ComputeJob(2, 50)
    /\ CopiedWords(glCalls) = <<[w \in 1 .. MaxConstWords |-> 20 + w]>>


(***************************************************************************)
(* The surface formats getGLFormatFromSurfaceFormat is called with and the *)
(* GL internal formats ffxGetSurfaceFormatGL is called with: those the     *)
(* switches name, and others.                                              *)
(***************************************************************************)
TypelessFormats ==
    {"FFX_SURFACE_FORMAT_R32G32B32A32_TYPELESS", "FFX_SURFACE_FORMAT_R8G8B8A8_TYPELESS"}

SurfaceFormats ==
    {"FFX_SURFACE_FORMAT_UNKNOWN",
     "FFX_SURFACE_FORMAT_R32G32B32A32_TYPELESS",
     "FFX_SURFACE_FORMAT_R32G32B32A32_FLOAT",
     "FFX_SURFACE_FORMAT_R16G16B16A16_FLOAT",
     "FFX_SURFACE_FORMAT_R16G16B16A16_UNORM",
     "FFX_SURFACE_FORMAT_R32G32_FLOAT",
     "FFX_SURFACE_FORMAT_R32_UINT",
     "FFX_SURFACE_FORMAT_R8G8B8A8_TYPELESS",
     "FFX_SURFACE_FORMAT_R8G8B8A8_UNORM",
     "FFX_SURFACE_FORMAT_R11G11B10_FLOAT",
     "FFX_SURFACE_FORMAT_R16G16_FLOAT",
     "FFX_SURFACE_FORMAT_R16G16_UINT",
     "FFX_SURFACE_FORMAT_R16_FLOAT",
     "FFX_SURFACE_FORMAT_R16_UINT",
     "FFX_SURFACE_FORMAT_R16_UNORM",
     "FFX_SURFACE_FORMAT_R16_SNORM",
     "FFX_SURFACE_FORMAT_R8_UNORM",
     "FFX_SURFACE_FORMAT_R8G8_UNORM",
     "FFX_SURFACE_FORMAT_R32_FLOAT",
     "FFX_SURFACE_FORMAT_R8_UINT"}

DepthGLFormats ==
    {"GL_DEPTH_COMPONENT16", "GL_DEPTH_COMPONENT32F", "GL_DEPTH24_STENCIL8",
     "GL_DEPTH32F_STENCIL8"}

GLFormats ==
    {"GL_RGBA32F", "GL_RGBA16F", "GL_RGBA16", "GL_RG32F", "GL_R32UI", "GL_RGBA8",
     "GL_R11F_G11F_B10F", "GL_RG16F", "GL_RG16UI", "GL_R16F", "GL_R16UI", "GL_R16",
     "GL_R16_SNORM", "GL_R8", "GL_RG8", "GL_R32F", "GL_R8UI", "GL_RGB8", "GL_SRGB8_ALPHA8"}
    \cup DepthGLFormats

(***************************************************************************)
(* The GL internal formats ffxGetSurfaceFormatGL has a case for.           *)
(***************************************************************************)
ffxGetSurfaceFormatGL_recognises(fmt) ==
    fmt \in {"GL_RGBA32F", "GL_RGBA16F", "GL_RGBA16", "GL_RG32F", "GL_R32UI",
             "GL_RGBA8", "GL_R11F_G11F_B10F", "GL_RG16F", "GL_RG16UI", "GL_R16F",
             "GL_R16UI", "GL_R16", "GL_R16_SNORM", "GL_R8", "GL_R32F", "GL_R8UI"}

(***************************************************************************)
(* The calls of the format specification.  They touch no backend state;    *)
(* getGLFormatFromSurfaceFormat asserts on a format it has no case for.    *)
(***************************************************************************)
FormatGetSurfaceFormat ==
    /\ \E g \in GLFormats :
          call' = [op |-> "ffxGetSurfaceFormatGL", arg |-> g,
                   ret |-> ffxGetSurfaceFormatGL(g)]
    /\ UNCHANGED <<iface, glGetProcAddress, lifeVars, counterVars, glVars,
                   poolHistory, jobHistory>>

FormatGetGLFormat ==
    /\ \E f \in SurfaceFormats :
          /\ call' = [op |-> "getGLFormatFromSurfaceFormat", arg |-> f,
                      ret |-> getGLFormatFromSurfaceFormat(f)]
          /\ assertFailed' = (assertFailed \/ ~getGLFormatFromSurfaceFormat_accepts(f))
    /\ UNCHANGED <<iface, glGetProcAddress, phase, ub, counterVars, glVars,
                   poolHistory, jobHistory>>

FormatGetTextureResource ==
    /\ \E imageGL \in {0, 900}, width \in {1, 4}, height \in {2}, g \in GLFormats,
          state \in {{"COMPUTE_READ"}, {"UNORDERED_ACCESS"}} :
          call' = [op |-> "ffxGetTextureResourceGL", arg |-> g,
                   imageGL |-> imageGL, width |-> width, height |-> height,
                   state |-> state,
                   ret |-> ffxGetTextureResourceGL(imageGL, width, height, g, state)]
    /\ UNCHANGED <<iface, glGetProcAddress, lifeVars, counterVars, glVars,
                   poolHistory, jobHistory>>

NextFormat ==
    \/ FormatGetSurfaceFormat
    \/ FormatGetGLFormat
    \/ FormatGetTextureResource

(***************************************************************************)
(* The format functions read no backend state: the specification starts    *)
(* from the context of a zeroed scratch buffer.                            *)
(***************************************************************************)
InitFormat ==
    /\ InitContext
    /\ gpuJobCount = 0
    /\ nextStaticResource = 0
    /\ nextDynamicResource = 0
    /\ uboRingBufferIndex = 0

SpecFormat == InitFormat /\ [][NextFormat]_vars

(***************************************************************************)
(* C9: the format tables are mutually inverse: for each of the 16 GL       *)
(* formats g that ffxGetSurfaceFormatGL recognises,                        *)
(* getGLFormatFromSurfaceFormat(ffxGetSurfaceFormatGL(g)) = g; for each of *)
(* the 17 non-TYPELESS surface formats f that getGLFormatFromSurfaceFormat *)
(* accepts, ffxGetSurfaceFormatGL(getGLFormatFromSurfaceFormat(f)) = f;    *)
(* the two TYPELESS formats give the GL format of their FLOAT and UNORM    *)
(* counterparts; every other GL format gives FFX_SURFACE_FORMAT_UNKNOWN.   *)
(* The second part fails: FFX_SURFACE_FORMAT_R8G8_UNORM gives GL_RG8, for  *)
(* which ffxGetSurfaceFormatGL has no case.                                *)
(***************************************************************************)
C9_FormatTablesInverse ==
    /\ Cardinality({g \in GLFormats : ffxGetSurfaceFormatGL_recognises(g)}) = 16
    /\ Cardinality({f \in SurfaceFormats \ TypelessFormats :
                       getGLFormatFromSurfaceFormat_accepts(f)}) = 17
    /\ call.op = "ffxGetSurfaceFormatGL" =>
          IF ffxGetSurfaceFormatGL_recognises(call.arg)
          THEN getGLFormatFromSurfaceFormat(call.ret) = call.arg
          ELSE call.ret = "FFX_SURFACE_FORMAT_UNKNOWN"
    /\ (call.op = "getGLFormatFromSurfaceFormat"
            /\ getGLFormatFromSurfaceFormat_accepts(call.arg)) =>
          CASE call.arg = "FFX_SURFACE_FORMAT_R32G32B32A32_TYPELESS" ->
                   call.ret = getGLFormatFromSurfaceFormat(
                                  "FFX_SURFACE_FORMAT_R32G32B32A32_FLOAT")
            [] call.arg = "FFX_SURFACE_FORMAT_R8G8B8A8_TYPELESS" ->
                   call.ret = getGLFormatFromSurfaceFormat(
                                  "FFX_SURFACE_FORMAT_R8G8B8A8_UNORM")
            [] OTHER -> ffxGetSurfaceFormatGL(call.ret) = call.arg


(***************************************************************************)
(* MaxPipelines caps the CreatePipelineGL calls of the pipeline            *)
(* specification.                                                          *)
(***************************************************************************)
MaxPipelines == 1

(***************************************************************************)
(* getDefaultSubgroupSize: the subgroup query is not implemented; the      *)
(* function returns 32.                                                    *)
(***************************************************************************)
getDefaultSubgroupSize_wave64 == 32 + 32

getDefaultSubgroupSize == 32

(***************************************************************************)
(* GetDeviceCapabilitiesGL: the capabilities it reports.                   *)
(***************************************************************************)
GetDeviceCapabilitiesGL_reportsFp16 ==
    [minimumSupportedShaderModel |-> "FFX_SHADER_MODEL_5_1",
     waveLaneCountMin |-> getDefaultSubgroupSize,
     waveLaneCountMax |-> getDefaultSubgroupSize,
     fp16Supported |-> TRUE,
     raytracingSupported |-> FALSE]

GetDeviceCapabilitiesGL_capabilities ==
    [minimumSupportedShaderModel |-> "FFX_SHADER_MODEL_5_1",
     waveLaneCountMin |-> getDefaultSubgroupSize,
     waveLaneCountMax |-> getDefaultSubgroupSize,
     fp16Supported |-> FALSE,
     raytracingSupported |-> FALSE]

(***************************************************************************)
(* The nine passes, a pass id that is none of them, and the context flags; *)
(* a flags word is the set of the names of its bits.                       *)
(***************************************************************************)
Passes ==
    {"FFX_FSR2_PASS_DEPTH_CLIP", "FFX_FSR2_PASS_RECONSTRUCT_PREVIOUS_DEPTH",
     "FFX_FSR2_PASS_LOCK", "FFX_FSR2_PASS_ACCUMULATE",
     "FFX_FSR2_PASS_ACCUMULATE_SHARPEN", "FFX_FSR2_PASS_RCAS",
     "FFX_FSR2_PASS_COMPUTE_LUMINANCE_PYRAMID", "FFX_FSR2_PASS_GENERATE_REACTIVE",
     "FFX_FSR2_PASS_TCR_AUTOGENERATE"}

PassArgs == Passes \cup {"FFX_FSR2_PASS_COUNT"}

ContextFlagBits ==
    {"FFX_FSR2_ENABLE_HIGH_DYNAMIC_RANGE",
     "FFX_FSR2_ENABLE_DISPLAY_RESOLUTION_MOTION_VECTORS",
     "FFX_FSR2_ENABLE_MOTION_VECTORS_JITTER_CANCELLATION",
     "FFX_FSR2_ENABLE_DEPTH_INVERTED"}

(***************************************************************************)
(* CreatePipelineGL, the permutation flags: four from the context flags,   *)
(* sharpening from the pass, and the Lanczos table, wave64 and FP16 from   *)
(* the subgroup size and the device capabilities.                          *)
(***************************************************************************)
CreatePipelineGL_flags(pass, contextFlags) ==
    LET deviceCapabilities == GetDeviceCapabilitiesGL_capabilities
        defaultSubgroupSize == getDefaultSubgroupSize
        wave32to64 == defaultSubgroupSize = 32 /\ deviceCapabilities.waveLaneCountMax = 64
        canForceWave64 == wave32to64
        useLut == wave32to64 \/ defaultSubgroupSize = 64
        supportedFP16 == deviceCapabilities.fp16Supported
        flag(cond, bit) == IF cond THEN {bit} ELSE {}
    IN  flag("FFX_FSR2_ENABLE_HIGH_DYNAMIC_RANGE" \in contextFlags,
             "FSR2_SHADER_PERMUTATION_HDR_COLOR_INPUT")
        \cup flag("FFX_FSR2_ENABLE_DISPLAY_RESOLUTION_MOTION_VECTORS" \notin contextFlags,
                  "FSR2_SHADER_PERMUTATION_LOW_RES_MOTION_VECTORS")
        \cup flag("FFX_FSR2_ENABLE_MOTION_VECTORS_JITTER_CANCELLATION" \in contextFlags,
                  "FSR2_SHADER_PERMUTATION_JITTER_MOTION_VECTORS")
        \cup flag("FFX_FSR2_ENABLE_DEPTH_INVERTED" \in contextFlags,
                  "FSR2_SHADER_PERMUTATION_DEPTH_INVERTED")
        \cup flag(pass = "FFX_FSR2_PASS_ACCUMULATE_SHARPEN",
                  "FSR2_SHADER_PERMUTATION_ENABLE_SHARPENING")
        \cup flag(useLut, "FSR2_SHADER_PERMUTATION_REPROJECT_USE_LANCZOS_TYPE")
        \cup flag(canForceWave64, "FSR2_SHADER_PERMUTATION_FORCE_WAVE64")
        \cup flag(supportedFP16 /\ pass # "FFX_FSR2_PASS_RCAS",
                  "FSR2_SHADER_PERMUTATION_ALLOW_FP16")

(***************************************************************************)
(* populate_permutation_key: the seven options a permutation key holds.    *)
(***************************************************************************)
populate_permutation_key_allOptions(options) == options

populate_permutation_key(options) ==
    options \cap {"FSR2_SHADER_PERMUTATION_REPROJECT_USE_LANCZOS_TYPE",
                  "FSR2_SHADER_PERMUTATION_HDR_COLOR_INPUT",
                  "FSR2_SHADER_PERMUTATION_LOW_RES_MOTION_VECTORS",
                  "FSR2_SHADER_PERMUTATION_JITTER_MOTION_VECTORS",
                  "FSR2_SHADER_PERMUTATION_DEPTH_INVERTED",
                  "FSR2_SHADER_PERMUTATION_ENABLE_SHARPENING",
                  "FSR2_SHADER_PERMUTATION_ALLOW_FP16"}

(***************************************************************************)
(* fsr2GetPermutationBlobByIndexGL: the permutation table of the pass and  *)
(* the key into it; the luminance pyramid's key leaves out FP16, the two   *)
(* accumulate passes share a table, any other pass id asserts and gets the *)
(* empty blob.                                                             *)
(***************************************************************************)
fsr2GetPermutationBlobByIndexGL(passId, permutationOptions) ==
    LET blob(table, key) == [data |-> table, key |-> key]
        key == populate_permutation_key(permutationOptions)
    IN  CASE passId = "FFX_FSR2_PASS_DEPTH_CLIP" -> blob("depth_clip_pass", key)
          [] passId = "FFX_FSR2_PASS_RECONSTRUCT_PREVIOUS_DEPTH" ->
                 blob("reconstruct_previous_depth_pass", key)
          [] passId = "FFX_FSR2_PASS_LOCK" -> blob("lock_pass", key)
          [] passId \in {"FFX_FSR2_PASS_ACCUMULATE", "FFX_FSR2_PASS_ACCUMULATE_SHARPEN"} ->
                 blob("accumulate_pass", key)
          [] passId = "FFX_FSR2_PASS_RCAS" -> blob("rcas_pass", key)
          [] passId = "FFX_FSR2_PASS_COMPUTE_LUMINANCE_PYRAMID" ->
                 blob("compute_luminance_pyramid_pass",
                      key \ {"FSR2_SHADER_PERMUTATION_ALLOW_FP16"})
          [] passId = "FFX_FSR2_PASS_GENERATE_REACTIVE" ->
                 blob("autogen_reactive_pass", key)
          [] passId = "FFX_FSR2_PASS_TCR_AUTOGENERATE" -> blob("tcr_autogen_pass", key)
          [] OTHER -> blob(NULL, {})

(***************************************************************************)
(* What CreatePipelineGL leaves in outPipeline: the binding counts and     *)
(* slots are written before the shader is created, pipeline and            *)
(* rootSignature only after the program has linked.                        *)
(* Before that pipeline holds what the caller left there, written -1, and  *)
(* rootSignature is "unwritten".                                           *)
(***************************************************************************)
CreatePipelineGL_writesBeforeLinkCheck(bound, program, compileStatus, linkStatus) ==
    IF compileStatus
    THEN [bound EXCEPT !.pipeline = program, !.rootSignature = NULL]
    ELSE bound

CreatePipelineGL_outPipeline(bound, program, compileStatus, linkStatus) ==
    IF compileStatus /\ linkStatus
    THEN [bound EXCEPT !.pipeline = program, !.rootSignature = NULL]
    ELSE bound

(***************************************************************************)
(* CreatePipelineGL: selects the shader blob, copies its binding counts    *)
(* and slots to outPipeline, creates and specialises the shader, and links *)
(* the program.  A shader that does not compile is returned on without     *)
(* being deleted; the shader of a linked or unlinkable program is deleted, *)
(* the program is not.                                                     *)
(***************************************************************************)
CreatePipelineGL(pass, contextFlags, compileStatus, linkStatus) ==
    LET flags == CreatePipelineGL_flags(pass, contextFlags)
        shaderBlob == fsr2GetPermutationBlobByIndexGL(pass, flags)
        shader == glNextName
        program == glNextName + 1
        bound == [bindings |-> shaderBlob, pipeline |-> -1,
                  rootSignature |-> "unwritten"]
    IN  /\ assertFailed' = (assertFailed \/ shaderBlob.data = NULL)
        /\ call' = [op |-> "CreatePipelineGL", pass |-> pass,
                    contextFlags |-> contextFlags, flags |-> flags,
                    compileStatus |-> compileStatus,
                    linkStatus |-> linkStatus,
                    ret |-> IF compileStatus /\ linkStatus THEN FFX_OK
                            ELSE FFX_ERROR_BACKEND_API_ERROR,
                    outPipeline |->
                        CreatePipelineGL_outPipeline(bound, program,
                                                     compileStatus, linkStatus)]
        /\ IF ~compileStatus
           THEN /\ glNextName' = glNextName + 1
                /\ glLive' = glLive \cup {shader}
           ELSE /\ glNextName' = glNextName + 2
                /\ glLive' = glLive \cup {program}
        /\ UNCHANGED <<iface, glGetProcAddress, phase, ub, counterVars, poolHistory,
                       jobHistory>>

(***************************************************************************)
(* Specification of pipeline creation: the context is created and          *)
(* pipelines are created for every pass and every set of context flags,    *)
(* with every outcome of compiling and linking.                            *)
(***************************************************************************)
GLStatusOutcomes ==
    {[compile |-> FALSE, link |-> FALSE],
     [compile |-> TRUE, link |-> FALSE],
     [compile |-> TRUE, link |-> TRUE]}

PipelineCreateBackendContext ==
    /\ phase = "interface"
    /\ CreateBackendContextGL(FSR2_UBO_RING_BUFFER_SIZE)

PipelineCreatePipeline ==
    /\ phase = "created"
    /\ glNextName - (3 + FSR2_UBO_RING_BUFFER_SIZE) <= 2 * (MaxPipelines - 1)
    /\ \E pass \in PassArgs, contextFlags \in SUBSET ContextFlagBits,
          status \in GLStatusOutcomes :
          CreatePipelineGL(pass, contextFlags, status.compile, status.link)

NextPipeline ==
    \/ PipelineCreateBackendContext
    \/ PipelineCreatePipeline

SpecPipeline == InitContext /\ [][NextPipeline]_vars

(***************************************************************************)
(* C10: for each of the nine passes and every contextFlags value, the      *)
(* permutation flags CreatePipelineGL passes to                            *)
(* fsr2GetPermutationBlobByIndexGL hold HDR_COLOR_INPUT iff                *)
(* ENABLE_HIGH_DYNAMIC_RANGE is set, LOW_RES_MOTION_VECTORS iff            *)
(* ENABLE_DISPLAY_RESOLUTION_MOTION_VECTORS is not set,                    *)
(* JITTER_MOTION_VECTORS iff ENABLE_MOTION_VECTORS_JITTER_CANCELLATION is  *)
(* set, DEPTH_INVERTED iff ENABLE_DEPTH_INVERTED is set, ENABLE_SHARPENING *)
(* iff the pass is ACCUMULATE_SHARPEN, and never                           *)
(* REPROJECT_USE_LANCZOS_TYPE, FORCE_WAVE64 or ALLOW_FP16.                 *)
(***************************************************************************)
C10_PermutationFlags ==
    (call.op = "CreatePipelineGL" /\ call.pass \in Passes) =>
        /\ "FSR2_SHADER_PERMUTATION_HDR_COLOR_INPUT" \in call.flags
              <=> "FFX_FSR2_ENABLE_HIGH_DYNAMIC_RANGE" \in call.contextFlags
        /\ "FSR2_SHADER_PERMUTATION_LOW_RES_MOTION_VECTORS" \in call.flags
              <=> "FFX_FSR2_ENABLE_DISPLAY_RESOLUTION_MOTION_VECTORS" \notin call.contextFlags
        /\ "FSR2_SHADER_PERMUTATION_JITTER_MOTION_VECTORS" \in call.flags
              <=> "FFX_FSR2_ENABLE_MOTION_VECTORS_JITTER_CANCELLATION" \in call.contextFlags
        /\ "FSR2_SHADER_PERMUTATION_DEPTH_INVERTED" \in call.flags
              <=> "FFX_FSR2_ENABLE_DEPTH_INVERTED" \in call.contextFlags
        /\ "FSR2_SHADER_PERMUTATION_ENABLE_SHARPENING" \in call.flags
              <=> call.pass = "FFX_FSR2_PASS_ACCUMULATE_SHARPEN"
        /\ call.flags \cap {"FSR2_SHADER_PERMUTATION_REPROJECT_USE_LANCZOS_TYPE",
                            "FSR2_SHADER_PERMUTATION_FORCE_WAVE64",
                            "FSR2_SHADER_PERMUTATION_ALLOW_FP16"} = {}
        /\ call.outPipeline.bindings = fsr2GetPermutationBlobByIndexGL(call.pass, call.flags)

C10_Witness ==
    /\ call.op = "CreatePipelineGL"
    /\ call.pass = "FFX_FSR2_PASS_ACCUMULATE_SHARPEN"
    /\ call.contextFlags = {"FFX_FSR2_ENABLE_HIGH_DYNAMIC_RANGE",
                            "FFX_FSR2_ENABLE_DEPTH_INVERTED"}
    /\ call.flags = {"FSR2_SHADER_PERMUTATION_HDR_COLOR_INPUT",
                     "FSR2_SHADER_PERMUTATION_LOW_RES_MOTION_VECTORS",
                     "FSR2_SHADER_PERMUTATION_DEPTH_INVERTED",
                     "FSR2_SHADER_PERMUTATION_ENABLE_SHARPENING"}
    /\ call.ret = FFX_OK


(***************************************************************************)
(* The resource states addBarrier is called with: every combination of the *)
(* four state bits (FFX_RESOURCE_STATE_GENERIC_READ is COPY_SRC with       *)
(* COMPUTE_READ).                                                          *)
(***************************************************************************)
ResourceStateBits == {"UNORDERED_ACCESS", "COMPUTE_READ", "COPY_SRC", "COPY_DEST"}

(***************************************************************************)
(* Specification of the barriers: the context and resources are created    *)
(* and addBarrier is called on a created resource with every state.        *)
(***************************************************************************)
BarrierCreateBackendContext ==
    /\ phase = "interface"
    /\ CreateBackendContextGL(FSR2_UBO_RING_BUFFER_SIZE)

BarrierCreateResource ==
    /\ phase = "created" /\ ~ub
    /\ Cardinality(staticIdx) < MaxStatic
    /\ \E d \in PoolCreateDescriptions : CreateResourceGL(d)

BarrierAddBarrier ==
    /\ phase = "created" /\ ~ub
    /\ \E internalIndex \in staticIdx, newState \in SUBSET ResourceStateBits :
          LET m == addBarrier(Machine, internalIndex, newState)
          IN  /\ call' = [op |-> "addBarrier", resource |-> internalIndex,
                          newState |-> newState]
              /\ resources' = m.resources
              /\ glCalls' = m.glCalls
              /\ IF m.ub
                 THEN UndefinedBehaviour
                 ELSE UNCHANGED <<ub, nextStaticResource, nextDynamicResource,
                                  stagingResourceCount>>
    /\ UNCHANGED <<iface, glGetProcAddress, phase, assertFailed, jobVars, ringVars,
                   glVars, poolHistory, callerJob, accepted, executed, acquireCount,
                   scheduledTotal>>

NextBarrier ==
    \/ BarrierCreateBackendContext
    \/ BarrierCreateResource
    \/ BarrierAddBarrier

SpecBarrier == InitContext /\ [][NextBarrier]_vars

(***************************************************************************)
(* The barrier mask C11 states for a resource of the given kind entering   *)
(* newState.                                                               *)
(***************************************************************************)
C11_Mask(isBuffer, newState) ==
    UNION {IF isBuffer
           THEN CASE s = "UNORDERED_ACCESS" -> {"GL_SHADER_STORAGE_BARRIER_BIT"}
                  [] s = "COMPUTE_READ" -> {"GL_UNIFORM_BARRIER_BIT"}
                  [] OTHER -> {"GL_BUFFER_UPDATE_BARRIER_BIT",
                               "GL_PIXEL_BUFFER_BARRIER_BIT"}
           ELSE CASE s = "UNORDERED_ACCESS" -> {"GL_SHADER_IMAGE_ACCESS_BARRIER_BIT"}
                  [] s = "COMPUTE_READ" -> {"GL_SHADER_IMAGE_ACCESS_BARRIER_BIT",
                                            "GL_TEXTURE_FETCH_BARRIER_BIT"}
                  [] OTHER -> {"GL_TEXTURE_UPDATE_BARRIER_BIT"}
           : s \in newState}

(***************************************************************************)
(* C11: addBarrier records newState as the state of the resource and       *)
(* issues exactly one glMemoryBarrier, whose mask is the union over the    *)
(* state bits in newState of, for a buffer, UNORDERED_ACCESS ->            *)
(* SHADER_STORAGE, COMPUTE_READ -> UNIFORM, COPY_SRC or COPY_DEST ->       *)
(* BUFFER_UPDATE|PIXEL_BUFFER and, for a texture, UNORDERED_ACCESS ->      *)
(* SHADER_IMAGE_ACCESS, COMPUTE_READ -> SHADER_IMAGE_ACCESS|TEXTURE_FETCH, *)
(* COPY_SRC or COPY_DEST -> TEXTURE_UPDATE; it changes the state of no     *)
(* other resource.                                                         *)
(***************************************************************************)
C11_BarrierBits ==
    [][(call'.op = "addBarrier" /\ ~ub') =>
          /\ resources'[call'.resource].state = call'.newState
          /\ Len(glCalls') = 1
          /\ glCalls'[1].fn = "glMemoryBarrier"
          /\ glCalls'[1].barriers =
                C11_Mask(resources[call'.resource].type = "FFX_RESOURCE_TYPE_BUFFER",
                         call'.newState)
          /\ \A i \in ResourceIndices \ {call'.resource} :
                resources'[i].state = resources[i].state]_vars

C11_Witness ==
    /\ call.op = "addBarrier"
    /\ ~ub
    /\ resources[call.resource].type = "FFX_RESOURCE_TYPE_BUFFER"
    /\ call.newState = {"COMPUTE_READ", "COPY_SRC"}
    /\ resources[call.resource].state = {"COMPUTE_READ", "COPY_SRC"}
    /\ glCalls = <<[fn |-> "glMemoryBarrier", resource |-> call.resource,
                    barriers |-> {"GL_UNIFORM_BARRIER_BIT",
                                  "GL_BUFFER_UPDATE_BARRIER_BIT",
                                  "GL_PIXEL_BUFFER_BARRIER_BIT"}]>>


(***************************************************************************)
(* GetDeviceCapabilitiesGL: fills the caller's FfxDeviceCapabilities and   *)
(* returns FFX_OK; the device argument is not read.                        *)
(***************************************************************************)
GetDeviceCapabilitiesGL(device) ==
    /\ call' = [op |-> "GetDeviceCapabilitiesGL", device |-> device, ret |-> FFX_OK,
                deviceCapabilities |-> GetDeviceCapabilitiesGL_capabilities]
    /\ UNCHANGED <<iface, glGetProcAddress, lifeVars, counterVars, glVars,
                   poolHistory, jobHistory>>

(***************************************************************************)
(* Specification of the capability query: it is called with any device,    *)
(* before and after the context is created, whether or not the creation    *)
(* succeeded.                                                              *)
(***************************************************************************)
DeviceArgs == {NULL, "deviceA", "deviceB"}

CapsCreateBackendContext ==
    /\ phase = "interface"
    /\ \E f \in MapFailurePoints : CreateBackendContextGL(f)

CapsGetDeviceCapabilities ==
    \E device \in DeviceArgs : GetDeviceCapabilitiesGL(device)

NextCaps ==
    \/ CapsCreateBackendContext
    \/ CapsGetDeviceCapabilities

SpecCaps == InitContext /\ [][NextCaps]_vars

(***************************************************************************)
(* C12: GetDeviceCapabilitiesGL returns FFX_OK and reports shader model    *)
(* 5.1, waveLaneCountMin = waveLaneCountMax = 32, no FP16 and no           *)
(* raytracing, whatever the device and the state of the backend context,   *)
(* and changes no field of the backend context and no GL object.           *)
(***************************************************************************)
C12_CapabilitiesFixed ==
    [][call'.op = "GetDeviceCapabilitiesGL" =>
          /\ call'.ret = FFX_OK
          /\ call'.deviceCapabilities.minimumSupportedShaderModel = "FFX_SHADER_MODEL_5_1"
          /\ call'.deviceCapabilities.waveLaneCountMin = 32
          /\ call'.deviceCapabilities.waveLaneCountMax = 32
          /\ call'.deviceCapabilities.fp16Supported = FALSE
          /\ call'.deviceCapabilities.raytracingSupported = FALSE
          /\ UNCHANGED <<glGetProcAddress, counterVars, glVars>>]_vars

C12_Witness ==
    /\ call.op = "GetDeviceCapabilitiesGL"
    /\ call.device = "deviceB"
    /\ call.deviceCapabilities.waveLaneCountMax = 32
    /\ phase = "failed"
    /\ gpuJobCount = 7
    /\ uboRingBuffer[5].pData = 0


(***************************************************************************)
(* C13: ffxGetTextureResourceGL returns a resource that wraps the given GL *)
(* image: type TEXTURE2D, the given width, height and state, depth 1,      *)
(* mipCount 1, flags NONE, format ffxGetSurfaceFormatGL(imgFormat), and    *)
(* isDepth exactly for GL_DEPTH_COMPONENT16, GL_DEPTH_COMPONENT32F,        *)
(* GL_DEPTH24_STENCIL8 and GL_DEPTH32F_STENCIL8, whose reported format is  *)
(* FFX_SURFACE_FORMAT_UNKNOWN; the call changes no backend state.          *)
(***************************************************************************)
C13_TextureResourceWraps ==
    [][call'.op = "ffxGetTextureResourceGL" =>
          /\ call'.ret.resource = call'.imageGL
          /\ call'.ret.type = "FFX_RESOURCE_TYPE_TEXTURE2D"
          /\ call'.ret.width = call'.width
          /\ call'.ret.height = call'.height
          /\ call'.ret.state = call'.state
          /\ call'.ret.depth = 1
          /\ call'.ret.mipCount = 1
          /\ call'.ret.flags = "FFX_RESOURCE_FLAGS_NONE"
          /\ call'.ret.format = ffxGetSurfaceFormatGL(call'.arg)
          /\ call'.ret.isDepth <=>
                call'.arg \in {"GL_DEPTH_COMPONENT16", "GL_DEPTH_COMPONENT32F",
                               "GL_DEPTH24_STENCIL8", "GL_DEPTH32F_STENCIL8"}
          /\ call'.ret.isDepth => call'.ret.format = "FFX_SURFACE_FORMAT_UNKNOWN"
          /\ UNCHANGED <<glGetProcAddress, counterVars, glVars, lifeVars>>]_vars

C13_Witness ==
    /\ call.op = "ffxGetTextureResourceGL"
    /\ call.arg = "GL_DEPTH24_STENCIL8"
    /\ call.imageGL = 900
    /\ call.width = 4
    /\ call.ret.isDepth
    /\ call.ret.format = "FFX_SURFACE_FORMAT_UNKNOWN"
    /\ call.ret.state = {"UNORDERED_ACCESS"}


(***************************************************************************)
(* C14: CreateBackendContextGL returns FFX_ERROR_BACKEND_API_ERROR when    *)
(* the mapping of a uniform buffer of the ring fails and FFX_OK otherwise; *)
(* after FFX_OK nextStaticResource = 0, nextDynamicResource = 63,          *)
(* gpuJobCount = 0, stagingResourceCount = 0, uboRingBufferIndex = 0 and   *)
(* each of the FSR2_UBO_RING_BUFFER_SIZE ring entries has a buffer and a   *)
(* non-null mapped pointer.                                                *)
(***************************************************************************)
C14_CreateBackendContext ==
    [][call'.op = "CreateBackendContextGL" =>
          /\ call'.ret \in {FFX_OK, FFX_ERROR_BACKEND_API_ERROR}
          /\ call'.ret = FFX_ERROR_BACKEND_API_ERROR <=>
                \E i \in RingIndices : uboRingBuffer'[i].pData = 0
          /\ call'.ret = FFX_OK =>
                /\ nextStaticResource' = 0
                /\ nextDynamicResource' = 63
                /\ gpuJobCount' = 0
                /\ stagingResourceCount' = 0
                /\ uboRingBufferIndex' = 0
                /\ \A i \in RingIndices :
                      /\ uboRingBuffer'[i].bufferResource \in glLive'
                      /\ uboRingBuffer'[i].pData \notin {0, UninitUbo.pData}]_vars

C14_Witness ==
    /\ call.op = "CreateBackendContextGL"
    /\ call.ret = FFX_ERROR_BACKEND_API_ERROR
    /\ uboRingBuffer[FSR2_UBO_RING_BUFFER_SIZE - 1].pData = 0
    /\ uboRingBuffer[FSR2_UBO_RING_BUFFER_SIZE - 2].pData # 0
    /\ nextDynamicResource = 63
    /\ gpuJobCount = 7
    /\ phase = "failed"


(***************************************************************************)
(* DestroyBackendContextGL, the ring loop: every entry's buffer handle and *)
(* mapped pointer are cleared after its buffer is deleted.                 *)
(***************************************************************************)
DestroyBackendContextGL_keepsHandles(ring) == ring

DestroyBackendContextGL_ring(ring) ==
    [i \in DOMAIN ring |-> [bufferResource |-> 0, pData |-> 0]]

(***************************************************************************)
(* DestroyBackendContextGL: destroys the staging resources, deletes the    *)
(* buffer of every ring entry and the two samplers and clears their        *)
(* handles.  The names handed to glDeleteBuffers and glDeleteSamplers are  *)
(* recorded in call order; GL ignores the name 0 and names of no object.   *)
(* stagingResources is never written, so a non-zero stagingResourceCount   *)
(* makes the first loop read indeterminate resource handles.               *)
(***************************************************************************)
DestroyBackendContextGL ==
    LET ringNames == [i \in 1 .. FSR2_UBO_RING_BUFFER_SIZE |->
                         uboRingBuffer[i - 1].bufferResource]
        deleted == ringNames \o <<pointSampler, linearSampler>>
    IN  /\ IF stagingResourceCount = 0
           THEN UNCHANGED <<ub, nextStaticResource, nextDynamicResource,
                            stagingResourceCount>>
           ELSE UndefinedBehaviour
        /\ uboRingBuffer' = DestroyBackendContextGL_ring(uboRingBuffer)
        /\ pointSampler' = 0
        /\ linearSampler' = 0
        /\ glLive' = glLive \ {deleted[k] : k \in DOMAIN deleted}
        /\ phase' = IF phase = "interface" THEN "interface" ELSE "destroyed"
        /\ call' = [op |-> "DestroyBackendContextGL", ret |-> FFX_OK,
                    deleted |-> deleted]
        /\ UNCHANGED <<iface, glGetProcAddress, assertFailed, resources, jobVars,
                       uboRingBufferIndex, glNextName, poolHistory, jobHistory>>

(***************************************************************************)
(* Specification of the context's lifecycle: the context is created once,  *)
(* with the mapping of any ring buffer failing or none, and destroyed any  *)
(* number of times, before or after.                                       *)
(***************************************************************************)
LifeCreateBackendContext ==
    /\ phase = "interface"
    /\ \E f \in MapFailurePoints : CreateBackendContextGL(f)

LifeDestroyBackendContext ==
    /\ ~ub
    /\ DestroyBackendContextGL

NextLife ==
    \/ LifeCreateBackendContext
    \/ LifeDestroyBackendContext

SpecLife == InitContext /\ [][NextLife]_vars

(***************************************************************************)
(* The GL objects a successfully created context holds.                    *)
(***************************************************************************)
ContextObjects ==
    {pointSampler, linearSampler} \cup
    {uboRingBuffer[i].bufferResource : i \in RingIndices}

(***************************************************************************)
(* C15: DestroyBackendContextGL on a successfully created context deletes  *)
(* each of the two samplers and the FSR2_UBO_RING_BUFFER_SIZE ring buffers *)
(* exactly once, leaves the sampler and buffer handles zero and the mapped *)
(* pointers null and returns FFX_OK; a DestroyBackendContextGL after that  *)
(* deletes no live object.                                                 *)
(***************************************************************************)
C15_LifecycleBalanced ==
    [][call'.op = "DestroyBackendContextGL" =>
          /\ call'.ret = FFX_OK
          /\ phase = "created" =>
                /\ Cardinality(ContextObjects) = 2 + FSR2_UBO_RING_BUFFER_SIZE
                /\ \A n \in ContextObjects :
                      /\ n \in glLive
                      /\ n \notin glLive'
                      /\ Cardinality({k \in DOMAIN call'.deleted :
                                         call'.deleted[k] = n}) = 1
                /\ glLive' = {}
          /\ phase \in {"created", "destroyed"} =>
                /\ pointSampler' = 0
                /\ linearSampler' = 0
                /\ \A i \in RingIndices :
                      /\ uboRingBuffer'[i].bufferResource = 0
                      /\ uboRingBuffer'[i].pData = 0
          /\ phase = "destroyed" =>
                /\ \A k \in DOMAIN call'.deleted : call'.deleted[k] \notin glLive
                /\ glLive' = glLive]_vars

C15_Witness ==
    /\ call.op = "DestroyBackendContextGL"
    /\ phase = "destroyed"
    /\ gpuJobCount = 0
    /\ uboRingBufferIndex = 0
    /\ glNextName = 3 + FSR2_UBO_RING_BUFFER_SIZE
    /\ glLive = {}
    /\ \A k \in DOMAIN call.deleted : call.deleted[k] = 0
    /\ uboRingBuffer[FSR2_UBO_RING_BUFFER_SIZE - 1].pData = 0


(***************************************************************************)
(* C16: CreatePipelineGL returns FFX_ERROR_BACKEND_API_ERROR when the      *)
(* specialised shader's compile status or the program's link status is     *)
(* false, and then outPipeline->pipeline and rootSignature are not         *)
(* written; otherwise it returns FFX_OK with outPipeline->pipeline the     *)
(* linked program, which stays alive, and rootSignature null.  In every    *)
(* case the binding counts and slots of outPipeline are those of the blob  *)
(* selected for the pass and the permutation flags.                        *)
(***************************************************************************)
C16_CreatePipelineResult ==
    [][call'.op = "CreatePipelineGL" =>
          /\ call'.ret = IF call'.compileStatus /\ call'.linkStatus
                         THEN FFX_OK ELSE FFX_ERROR_BACKEND_API_ERROR
          /\ call'.ret = FFX_ERROR_BACKEND_API_ERROR =>
                /\ call'.outPipeline.pipeline = -1
                /\ call'.outPipeline.rootSignature = "unwritten"
          /\ call'.ret = FFX_OK =>
                /\ call'.outPipeline.pipeline \in glLive' \ glLive
                /\ call'.outPipeline.pipeline = glNextName' - 1
                /\ call'.outPipeline.rootSignature = NULL
          /\ call'.outPipeline.bindings =
                fsr2GetPermutationBlobByIndexGL(call'.pass, call'.flags)]_vars

C16_Witness ==
    /\ call.op = "CreatePipelineGL"
    /\ call.compileStatus
    /\ ~call.linkStatus
    /\ call.ret = FFX_ERROR_BACKEND_API_ERROR
    /\ call.outPipeline.pipeline = -1
    /\ call.outPipeline.bindings.data = "rcas_pass"


(***************************************************************************)
(* Specification of the blob selection: fsr2GetPermutationBlobByIndexGL is *)
(* called with every pass id, known or not, and every combination of the   *)
(* eight permutation option bits.  The function reads nothing but its     *)
(* arguments, so each behaviour calls it once.                             *)
(***************************************************************************)
PermutationOptionBits ==
    {"FSR2_SHADER_PERMUTATION_REPROJECT_USE_LANCZOS_TYPE",
     "FSR2_SHADER_PERMUTATION_HDR_COLOR_INPUT",
     "FSR2_SHADER_PERMUTATION_LOW_RES_MOTION_VECTORS",
     "FSR2_SHADER_PERMUTATION_JITTER_MOTION_VECTORS",
     "FSR2_SHADER_PERMUTATION_DEPTH_INVERTED",
     "FSR2_SHADER_PERMUTATION_ENABLE_SHARPENING",
     "FSR2_SHADER_PERMUTATION_FORCE_WAVE64",
     "FSR2_SHADER_PERMUTATION_ALLOW_FP16"}

BlobGetPermutationBlob ==
    \E passId \in PassArgs, permutationOptions \in SUBSET PermutationOptionBits :
        /\ call = NoCall
        /\ call' = [op |-> "fsr2GetPermutationBlobByIndexGL", passId |-> passId,
                    permutationOptions |-> permutationOptions,
                    ret |-> fsr2GetPermutationBlobByIndexGL(passId, permutationOptions)]
        /\ assertFailed' = (assertFailed \/ passId \notin Passes)
        /\ UNCHANGED <<iface, glGetProcAddress, phase, ub, counterVars, glVars,
                       poolHistory, jobHistory>>

NextBlob == BlobGetPermutationBlob

SpecBlob == InitFormat /\ [][NextBlob]_vars

(***************************************************************************)
(* C17: fsr2GetPermutationBlobByIndexGL returns, for each of the nine      *)
(* passes, a blob of that pass's permutation table, ACCUMULATE and         *)
(* ACCUMULATE_SHARPEN both using the accumulate table, and for any other   *)
(* pass id the empty blob.  The blob is the same for any two option words  *)
(* that agree on the seven key options (on the six without ALLOW_FP16 for  *)
(* the luminance pyramid), so FORCE_WAVE64 never changes it.               *)
(***************************************************************************)
C17_PassTable ==
    [FFX_FSR2_PASS_DEPTH_CLIP |-> "depth_clip_pass",
     FFX_FSR2_PASS_RECONSTRUCT_PREVIOUS_DEPTH |-> "reconstruct_previous_depth_pass",
     FFX_FSR2_PASS_LOCK |-> "lock_pass",
     FFX_FSR2_PASS_ACCUMULATE |-> "accumulate_pass",
     FFX_FSR2_PASS_ACCUMULATE_SHARPEN |-> "accumulate_pass",
     FFX_FSR2_PASS_RCAS |-> "rcas_pass",
     FFX_FSR2_PASS_COMPUTE_LUMINANCE_PYRAMID |-> "compute_luminance_pyramid_pass",
     FFX_FSR2_PASS_GENERATE_REACTIVE |-> "autogen_reactive_pass",
     FFX_FSR2_PASS_TCR_AUTOGENERATE |-> "tcr_autogen_pass"]

C17_KeyBits(passId) ==
    PermutationOptionBits \
        ({"FSR2_SHADER_PERMUTATION_FORCE_WAVE64"} \cup
         IF passId = "FFX_FSR2_PASS_COMPUTE_LUMINANCE_PYRAMID"
         THEN {"FSR2_SHADER_PERMUTATION_ALLOW_FP16"} ELSE {})

C17_BlobSelection ==
    call.op = "fsr2GetPermutationBlobByIndexGL" =>
        /\ call.passId \in Passes =>
              /\ call.ret.data = C17_PassTable[call.passId]
              /\ call.ret.key = call.permutationOptions \cap C17_KeyBits(call.passId)
        /\ call.passId \notin Passes => call.ret = [data |-> NULL, key |-> {}]
        /\ \A other \in SUBSET PermutationOptionBits :
              other \cap C17_KeyBits(call.passId)
                    = call.permutationOptions \cap C17_KeyBits(call.passId)
                 => fsr2GetPermutationBlobByIndexGL(call.passId, other) = call.ret

C17_Witness ==
    /\ call.op = "fsr2GetPermutationBlobByIndexGL"
    /\ call.passId = "FFX_FSR2_PASS_COMPUTE_LUMINANCE_PYRAMID"
    /\ call.permutationOptions = {"FSR2_SHADER_PERMUTATION_FORCE_WAVE64",
                                  "FSR2_SHADER_PERMUTATION_ALLOW_FP16",
                                  "FSR2_SHADER_PERMUTATION_HDR_COLOR_INPUT"}
    /\ call.ret.key = {"FSR2_SHADER_PERMUTATION_HDR_COLOR_INPUT"}


(***************************************************************************)
(* Specification of the queue's capacity: the context and one buffer are   *)
(* created, and clear jobs on the buffer are scheduled and executed in any *)
(* order, up to MaxQueueCalls ScheduleGpuJobGL calls in all.                *)
(***************************************************************************)
MaxQueueCalls == 33

QueueCreateBackendContext ==
    /\ phase = "interface"
    /\ CreateBackendContextGL(FSR2_UBO_RING_BUFFER_SIZE)

QueueCreateResource ==
    /\ phase = "created" /\ ~ub
    /\ staticIdx = {}
    /\ \E d \in {p \in PoolCreateDescriptions : p.type = "FFX_RESOURCE_TYPE_BUFFER"} :
          CreateResourceGL(d)

QueueScheduleGpuJob ==
    /\ phase = "created" /\ ~ub
    /\ 0 \in staticIdx
    /\ scheduledTotal < MaxQueueCalls
    /\ ScheduleGpuJobGL(ClearJob)

QueueExecuteGpuJobs ==
    /\ phase = "created" /\ ~ub
    /\ ExecuteGpuJobsGL

NextQueue ==
    \/ QueueCreateBackendContext
    \/ QueueCreateResource
    \/ QueueScheduleGpuJob
    \/ QueueExecuteGpuJobs

SpecQueue == InitContext /\ [][NextQueue]_vars

(***************************************************************************)
(* C18: after CreateBackendContextGL, whatever ScheduleGpuJobGL and        *)
(* ExecuteGpuJobsGL calls follow, gpuJobCount stays within                 *)
(* 0 .. FSR2_MAX_GPU_JOBS, the assertion gpuJobCount < FSR2_MAX_GPU_JOBS   *)
(* of ScheduleGpuJobGL holds and no job is written outside gpuJobs.        *)
(* ScheduleGpuJobGL called FSR2_MAX_GPU_JOBS + 1 times with no             *)
(* ExecuteGpuJobsGL between violates it.                                   *)
(***************************************************************************)
C18_QueueNeverOverflows ==
    phase = "created" =>
        /\ gpuJobCount \in 0 .. FSR2_MAX_GPU_JOBS
        /\ ~assertFailed
        /\ ~ub


(***************************************************************************)
(* Specification of job execution: the context, two textures (slots 0 and  *)
(* 1) and a buffer (slot 2) are created; compute jobs that use slot 0 as   *)
(* UAV and SRV, or slots 0 and 1 as UAVs and slot 1 as SRV, clear jobs on  *)
(* a texture and on the buffer and a copy job are scheduled and executed.  *)
(***************************************************************************)
UavJob ==
    [ComputeJob(1, 30) EXCEPT !.pipeline.pipeline = 80,
                              !.pipeline.uavCount = 2,
                              !.pipeline.uavResourceBindings = <<2, 5>>,
                              !.uavs = <<0, 1>>,
                              !.uavMip = <<0, 1>>,
                              !.srvs = <<1>>]

ClearBufferJob == [ClearJob EXCEPT !.target = 2]

ExecDescriptions == {ComputeJob(2, 50), UavJob, ClearJob, ClearBufferJob, CopyJob}

ExecResourceDescription(slot) ==
    CHOOSE d \in PoolCreateDescriptions :
        d.type = IF slot = 2 THEN "FFX_RESOURCE_TYPE_BUFFER"
                 ELSE "FFX_RESOURCE_TYPE_TEXTURE2D"

ExecCreateBackendContext ==
    /\ phase = "interface"
    /\ CreateBackendContextGL(FSR2_UBO_RING_BUFFER_SIZE)

ExecCreateResource ==
    /\ phase = "created" /\ ~ub
    /\ nextStaticResource \in 0 .. 2
    /\ CreateResourceGL(ExecResourceDescription(nextStaticResource))

ExecScheduleGpuJob ==
    /\ phase = "created" /\ ~ub
    /\ nextStaticResource = 3
    /\ scheduledTotal < MaxScheduled
    /\ \E j \in ExecDescriptions : ScheduleGpuJobGL(j)

ExecExecuteGpuJobs ==
    /\ phase = "created" /\ ~ub
    /\ nextStaticResource = 3
    /\ ExecuteGpuJobsGL

NextExec ==
    \/ ExecCreateBackendContext
    \/ ExecCreateResource
    \/ ExecScheduleGpuJob
    \/ ExecExecuteGpuJobs

SpecExec == InitContext /\ [][NextExec]_vars

(***************************************************************************)
(* The number of GL calls and copies into the ring one job makes.          *)
(***************************************************************************)
JobCallCount(job) ==
    CASE job.jobType = "FFX_GPU_JOB_COMPUTE" ->
             2 * job.pipeline.uavCount + 3 * job.pipeline.srvCount
               + 2 * job.pipeline.constCount + 2
      [] job.jobType = "FFX_GPU_JOB_CLEAR_FLOAT" ->
             IF resources[job.target].type = "FFX_RESOURCE_TYPE_BUFFER"
             THEN 0 ELSE 1 + resources[job.target].mipCount
      [] OTHER -> 0

RECURSIVE JobCallsBefore(_, _)
JobCallsBefore(jobs, k) ==
    IF k <= 1 THEN 0 ELSE JobCallsBefore(jobs, k - 1) + JobCallCount(jobs[k - 1])

(***************************************************************************)
(* The calls of the k-th executed job within the log of the last           *)
(* ExecuteGpuJobsGL call.                                                  *)
(***************************************************************************)
JobCalls(k) ==
    SubSeq(glCalls, JobCallsBefore(executed, k) + 1,
           JobCallsBefore(executed, k) + JobCallCount(executed[k]))

Positions(s, fns) == {p \in DOMAIN s : s[p].fn \in fns}

(***************************************************************************)
(* C19: the GL calls of one compute job are ordered barrier, binding,      *)
(* dispatch: each UAV's and each SRV's glMemoryBarrier directly precedes   *)
(* the binding of that resource, all UAV bindings come before all SRV      *)
(* bindings, the constant buffers are copied into the ring and bound after *)
(* these, and glUseProgram and then one glDispatchCompute come last; the   *)
(* calls of an ExecuteGpuJobsGL are those of its jobs one job after the    *)
(* other in queue order.                                                   *)
(***************************************************************************)
C19_CallOrder ==
    (call.op = "ExecuteGpuJobsGL" /\ ~ub) =>
        /\ Len(glCalls) = JobCallsBefore(executed, Len(executed) + 1)
        /\ \A k \in DOMAIN executed :
              executed[k].jobType = "FFX_GPU_JOB_COMPUTE" =>
                 LET job == executed[k]
                     s == JobCalls(k)
                     uavBinds == Positions(s, {"glBindImageTexture"})
                     srvBinds == Positions(s, {"glBindTextureUnit"})
                     cbCalls == Positions(s, {"memcpy", "glBindBufferRange"})
                 IN  /\ Cardinality(uavBinds) = job.pipeline.uavCount
                     /\ Cardinality(srvBinds) = job.pipeline.srvCount
                     /\ Cardinality(Positions(s, {"glBindBufferRange"}))
                           = job.pipeline.constCount
                     /\ \A p \in uavBinds \cup srvBinds :
                           /\ p > 1
                           /\ s[p - 1].fn = "glMemoryBarrier"
                           /\ s[p - 1].resource = s[p].resource
                     /\ {s[p].resource : p \in uavBinds}
                           = {job.uavs[u] : u \in 1 .. job.pipeline.uavCount}
                     /\ {s[p].resource : p \in srvBinds}
                           = {job.srvs[v] : v \in 1 .. job.pipeline.srvCount}
                     /\ \A p \in uavBinds, q \in srvBinds : p < q
                     /\ \A p \in uavBinds \cup srvBinds
                                \cup Positions(s, {"glMemoryBarrier", "glBindSampler"}),
                           q \in cbCalls : p < q
                     /\ \A p \in Positions(s, {"glBindBufferRange"}) :
                           /\ p - 1 \in Positions(s, {"memcpy"})
                           /\ s[p - 1].dst = s[p].buffer
                     /\ s[Len(s) - 1] = [fn |-> "glUseProgram",
                                         program |-> job.pipeline.pipeline]
                     /\ s[Len(s)] = [fn |-> "glDispatchCompute",
                                     dimensions |-> job.dimensions]
                     /\ Positions(s, {"glUseProgram"}) = {Len(s) - 1}
                     /\ Positions(s, {"glDispatchCompute"}) = {Len(s)}

C19_Witness ==
    /\ call.op = "ExecuteGpuJobsGL"
    /\ ~ub
    /\ executed = <<UavJob, ComputeJob(2, 50)>>
    /\ Len(glCalls) = 22
    /\ glCalls[4].fn = "glBindImageTexture"
    /\ glCalls[6].fn = "glBindTextureUnit"
    /\ glCalls[11].fn = "glDispatchCompute"
    /\ glCalls[22].fn = "glDispatchCompute"


(***************************************************************************)
(* The recorded states the executed jobs are to leave, job after job: a    *)
(* compute job leaves its SRVs in COMPUTE_READ and the resources it binds  *)
(* as UAV only in UNORDERED_ACCESS, a clear job leaves a texture target in *)
(* COPY_DEST, and every other state is kept.                               *)
(***************************************************************************)
StatesAfterJob(states, job) ==
    CASE job.jobType = "FFX_GPU_JOB_COMPUTE" ->
             LET srvs == {job.srvs[v] : v \in 1 .. job.pipeline.srvCount}
                 uavs == {job.uavs[u] : u \in 1 .. job.pipeline.uavCount}
             IN  [i \in DOMAIN states |->
                     IF i \in srvs THEN {"COMPUTE_READ"}
                     ELSE IF i \in uavs THEN {"UNORDERED_ACCESS"}
                     ELSE states[i]]
      [] job.jobType = "FFX_GPU_JOB_CLEAR_FLOAT" ->
             [i \in DOMAIN states |->
                 IF i = job.target /\ resources[i].type # "FFX_RESOURCE_TYPE_BUFFER"
                 THEN {"COPY_DEST"} ELSE states[i]]
      [] OTHER -> states

RECURSIVE StatesAfterJobs(_, _, _)
StatesAfterJobs(states, jobs, k) ==
    IF k > Len(jobs) THEN states
    ELSE StatesAfterJobs(StatesAfterJob(states, jobs[k]), jobs, k + 1)

(***************************************************************************)
(* C20: an executed compute job leaves every resource it bound as SRV in   *)
(* state COMPUTE_READ and every resource it bound as UAV only in state     *)
(* UNORDERED_ACCESS; a clear job leaves a texture target in COPY_DEST; a   *)
(* clear job on a buffer and a copy job change no state; the resources a   *)
(* job does not refer to keep their state.  ExecuteGpuJobsGL leaves the    *)
(* states its jobs leave in queue order and changes nothing else of a      *)
(* resource.                                                               *)
(***************************************************************************)
C20_ResourceStates ==
    [][(call'.op = "ExecuteGpuJobsGL" /\ ~ub') =>
          /\ \A i \in ResourceIndices :
                /\ resources'[i].state =
                      StatesAfterJobs([r \in ResourceIndices |-> resources[r].state],
                                      executed', 1)[i]
                /\ [resources'[i] EXCEPT !.state = {}]
                      = [resources[i] EXCEPT !.state = {}]
          /\ executed' = accepted]_vars

C20_Witness ==
    /\ call.op = "ExecuteGpuJobsGL"
    /\ ~ub
    /\ executed = <<ClearJob, UavJob>>
    /\ resources[0].state = {"UNORDERED_ACCESS"}
    /\ resources[1].state = {"COMPUTE_READ"}
    /\ resources[2].state = {"uninit"}

====
